---------------------------- MODULE Spec2Model ----------------------------
(***************************************************************************)
(* A model of the MIDI ingestion and transformation engine of WWM-Guqin:   *)
(* the VLQ helpers, the byte-level sanitizer (safe_load_midi), the chord   *)
(* reducer (reduce_chords_to_root) and the processor run                   *)
(* (MidiProcessor.run) of src/midi_processor.py, with the tables of        *)
(* src/keyboard_map.py.                                                    *)
(*                                                                         *)
(* Each component has its own specification over the one set of variables: *)
(*   SpecVlq     _encode_vlq / _read_vlq                                   *)
(*   SpecSan     safe_load_midi                                            *)
(*   SpecReduce  reduce_chords_to_root                                     *)
(*   SpecRun     MidiProcessor.run                                         *)
(* A specification leaves the variables of the other components at their   *)
(* idle values.                                                            *)
(*                                                                         *)
(* Conventions.  Bytes are integers 0..255, buffers are sequences of       *)
(* bytes, and positions are 0-based as in the source (buf[pos] of the      *)
(* source is buf[pos+1] here).  Python's None is the value None.  Times    *)
(* are whole numbers of milliseconds: the source computes them in seconds  *)
(* in floating point, and the model keeps every time a whole number of     *)
(* milliseconds so that the arithmetic is exact.  A note is the tuple      *)
(* <<time, note, track_idx>> of the source.                                *)
(***************************************************************************)
EXTENDS Integers, Sequences, FiniteSets, TLC

VARIABLES
  \* ---- _encode_vlq / _read_vlq ----
  vlq_pc,        \* "start" | "encoded" | "decoded" | "read" | "idle"
  vlq_v,         \* the integer handed to _encode_vlq
  vlq_enc,       \* the bytes _encode_vlq returned
  vlq_start,     \* the position handed to _read_vlq
  vlq_dec,       \* what _read_vlq returned: [value, pos]
  \* ---- safe_load_midi ----
  san_pc,        \* "start" | "chunk" | "event" | "close" | "parse" | "done"
                 \* | "raised" | "idle"
  raw,           \* the bytes of the file
  sanitized,     \* the rebuilt buffer
  pos,           \* read position in raw
  track_len,     \* the length field of the current track chunk
  track_end,     \* end of the current track, clamped to the file
  track_out,     \* the rebuilt body of the current track
  last_status,   \* last explicit status byte of the current track, or None
  san_result,    \* what safe_load_midi returned: "none" | "direct" |
                 \* "sanitized" | "raw" | "raise"
  san_parses,    \* whether the parser accepts [san: the rebuilt buffer,
                 \* raw: the original bytes]
  san_ev,        \* history: what the last iteration of the event loop did
  san_bodies,    \* history: the track bodies emitted so far, in order
  san_pass,      \* 1: the file itself; 2: the rebuilt buffer rebuilt again
  san_input,     \* history: the bytes of the file pass 1 started from
  san_first,     \* history: the rebuilt buffer of pass 1
  \* ---- reduce_chords_to_root ----
  red_pc,        \* "start" | "done" | "idle"
  red_notes,     \* the notes handed to reduce_chords_to_root, by time
  red_tol,       \* chord_tolerance_ms
  red_out,       \* the list reduce_chords_to_root returned
  \* ---- MidiProcessor ----
  run_pc,        \* "load" | "scan" | "tracks" | "msg" | "done" | "returned"
                 \* | "raised" | "idle"
  mid,           \* what safe_load_midi gives: [ok, ticks_per_beat, tracks]
  track_settings,       \* self.track_settings: track index -> settings
  time_ranges,          \* self.time_ranges: track index -> list of windows
  start_time,           \* self.start_time
  end_time,             \* self.end_time
  chord_tolerance_ms,   \* self.chord_tolerance_ms
  automap_out_of_range, \* self.automap_out_of_range
  keyboard_map,  \* "table": keyboard_map was imported; "fallback": it was not
  interruption,  \* isInterruptionRequested()
  tempo,         \* the current tempo, in microseconds per beat
  track_meta,    \* the (index, name, note_count) entries gathered so far
  selected_tracks,  \* the selected tracks still to process, in order
  ti,            \* the track being processed
  msg_i,         \* how many messages of track ti have been processed
  abs_time,      \* ticks of track ti so far
  track_notes,   \* notes of track ti so far
  all_merged_notes, \* notes of the tracks processed so far
  total_msgs,
  processed_msgs,
  emitted,       \* the signals emitted so far: [sig, arg]
  note_log,      \* history: each note-on with velocity > 0 of a selected
                 \* track: [ti, msg, note, time, kept]
  merged_notes,  \* history: all_merged_notes before auto-map
  automapped_notes, \* history: all_merged_notes after auto-map
  \* ---- MainWindow and its processor threads ----
  gui_pc,        \* the main thread: "idle" in the event loop, "wait_meta" |
                 \* "wait_note" | "wait_old" inside a wait(); "off"
  midi_path,     \* self.midi_path: None or the file chosen
  meta_processor,   \* self.meta_processor: None or a thread
  note_processor,   \* self.note_processor: None or a thread
  threads,       \* the MidiProcessor threads made so far:
                 \* [kind, pc, interruption, selected]
  event_queue,   \* the main thread's event queue: clicks and queued signals
  finish_calls,  \* history: the calls of finish_notes: the thread whose
                 \* result was handed over, and self.note_processor then
  \* ---- finish_notes / export_ahk ----
  ahk_pc,        \* "result" | "loaded" | "exported" | "idle"
  viz_data,      \* the notes handed to finish_notes
  current_notes, \* self.current_notes: (seconds, key, mode), times in ms
  playback_speed,  \* self.playback_speed, in hundredths
  script         \* the lines written by export_ahk

vlqVars == <<vlq_pc, vlq_v, vlq_enc, vlq_start, vlq_dec>>
sanVars == <<san_pc, raw, sanitized, pos, track_len, track_end, track_out,
             last_status, san_result, san_parses, san_ev, san_bodies,
             san_pass, san_input, san_first>>
redVars == <<red_pc, red_notes, red_tol, red_out>>
runVars == <<run_pc, mid, track_settings, time_ranges, start_time, end_time,
             chord_tolerance_ms, automap_out_of_range, keyboard_map,
             interruption, tempo, track_meta, selected_tracks, ti, msg_i,
             abs_time, track_notes, all_merged_notes, total_msgs,
             processed_msgs, emitted, note_log, merged_notes,
             automapped_notes>>
guiVars == <<gui_pc, midi_path, meta_processor, note_processor, threads,
             event_queue, finish_calls>>
ahkVars == <<ahk_pc, viz_data, current_notes, playback_speed, script>>
vars == <<vlqVars, sanVars, redVars, runVars, guiVars, ahkVars>>

\* What the actions of one component leave unchanged.
notVlqVars == <<sanVars, redVars, runVars, guiVars, ahkVars>>
notSanVars == <<vlqVars, redVars, runVars, guiVars, ahkVars>>
notRedVars == <<vlqVars, sanVars, runVars, guiVars, ahkVars>>
notRunVars == <<vlqVars, sanVars, redVars, guiVars, ahkVars>>
notGuiVars == <<vlqVars, sanVars, redVars, runVars, ahkVars>>
notAhkVars == <<vlqVars, sanVars, redVars, runVars, guiVars>>

None == -1

(***************************************************************************)
(* Sequence helpers.                                                       *)
(***************************************************************************)
\* Python's s[a:b] for 0 <= a, clamped to the sequence as Python clamps it.
Slice(s, a, b) ==
  LET hi == IF b > Len(s) THEN Len(s) ELSE b
  IN  IF a >= hi THEN << >> ELSE SubSeq(s, a + 1, hi)

Max(a, b) == IF a >= b THEN a ELSE b

(***************************************************************************)
(* _encode_vlq (src/midi_processor.py:23-29).                              *)
(***************************************************************************)
RECURSIVE EncodeVlqLoop(_, _)
\* while v: buf.insert(0, 0x80 | (v & 0x7F)); v >>= 7
EncodeVlqLoop(v, buf) ==
  IF v = 0 THEN buf
  ELSE EncodeVlqLoop(v \div 128, <<128 + (v % 128)>> \o buf)

\* _encode_vlq with the continuation bit also set on the last byte.
EncodeVlqFlagLast(v) == EncodeVlqLoop(v \div 128, <<128 + (v % 128)>>)

_encode_vlq(v) == EncodeVlqLoop(v \div 128, <<v % 128>>)

(***************************************************************************)
(* _read_vlq (src/midi_processor.py:31-43): [value, pos], value = None     *)
(* when no terminating byte was found.                                     *)
(***************************************************************************)
RECURSIVE ReadVlqLoop(_, _, _, _)
\* The loop of lines 35-42, with p the source's pos.
ReadVlqLoop(data_mv, start, p, value) ==
  IF p < Len(data_mv)
  THEN LET b  == data_mv[p + 1]
           p1 == p + 1
           v1 == value * 128 + (b % 128)
       IN  IF b < 128 THEN [value |-> v1, pos |-> p1]
           ELSE IF p1 - start > 4 THEN [value |-> None, pos |-> start + 1]
           ELSE ReadVlqLoop(data_mv, start, p1, v1)
  ELSE [value |-> None, pos |-> start + 1]

RECURSIVE ReadVlqLoopNoMask(_, _, _, _)
\* The loop of lines 35-42 with the continuation bit left in the value.
ReadVlqLoopNoMask(data_mv, start, p, value) ==
  IF p < Len(data_mv)
  THEN LET b  == data_mv[p + 1]
           p1 == p + 1
       IN  IF b < 128 THEN [value |-> value * 128 + b, pos |-> p1]
           ELSE IF p1 - start > 4 THEN [value |-> None, pos |-> start + 1]
           ELSE ReadVlqLoopNoMask(data_mv, start, p1, (value * 128 + b) % 2097152)
  ELSE [value |-> None, pos |-> start + 1]

\* _read_vlq without the mask 0x7F.
ReadVlqNoMask(data_mv, p) == ReadVlqLoopNoMask(data_mv, p, p, 0)

_read_vlq(data_mv, p) == ReadVlqLoop(data_mv, p, p, 0)

(***************************************************************************)
(* SpecVlq: the helpers applied to bounded inputs.                         *)
(***************************************************************************)
\* The 7-bit groups the inputs are built from: 0, 127 and 1..VlqDigitMax.
VlqDigitMax == 1
VlqDigits == {0, 127} \cup (1..VlqDigitMax)

\* Every value of at most four 7-bit groups over VlqDigits: 0, 127, 128,
\* 16383, 2097151 and 2^28 - 1 are among them.
VlqValues ==
  { ((a * 128 + b) * 128 + c) * 128 + d : a \in VlqDigits, b \in VlqDigits,
                                          c \in VlqDigits, d \in VlqDigits }

RedIdle ==
  /\ red_pc = "idle" /\ red_notes = << >> /\ red_tol = 0 /\ red_out = << >>

AhkIdle ==
  /\ ahk_pc = "idle" /\ viz_data = << >> /\ current_notes = << >>
  /\ playback_speed = 0 /\ script = << >>

GuiIdle ==
  /\ gui_pc = "off" /\ midi_path = None /\ meta_processor = None
  /\ note_processor = None /\ threads = << >> /\ event_queue = << >>
  /\ finish_calls = << >>

RunIdle ==
  /\ run_pc = "idle"
  /\ mid = [ok |-> FALSE, ticks_per_beat |-> 0, tracks |-> << >>]
  /\ track_settings = << >> /\ time_ranges = << >>
  /\ start_time = 0 /\ end_time = 0 /\ chord_tolerance_ms = 0
  /\ automap_out_of_range = FALSE /\ keyboard_map = "table"
  /\ interruption = FALSE /\ tempo = 0 /\ track_meta = << >>
  /\ selected_tracks = << >> /\ ti = 0 /\ msg_i = 0 /\ abs_time = 0
  /\ track_notes = << >> /\ all_merged_notes = << >>
  /\ total_msgs = 0 /\ processed_msgs = 0 /\ emitted = << >>
  /\ note_log = << >> /\ merged_notes = << >> /\ automapped_notes = << >>

VlqIdle ==
  /\ vlq_pc = "idle" /\ vlq_v = 0 /\ vlq_enc = << >> /\ vlq_start = 0
  /\ vlq_dec = [value |-> None, pos |-> 0]

InitVlq ==
  /\ vlq_pc = "start"
  /\ vlq_v \in VlqValues
  /\ vlq_enc = << >>
  /\ vlq_start = 0
  /\ vlq_dec = [value |-> None, pos |-> 0]

VlqEncode ==
  /\ vlq_pc = "start"
  /\ vlq_enc' = _encode_vlq(vlq_v)
  /\ vlq_pc' = "encoded"
  /\ UNCHANGED <<vlq_v, vlq_start, vlq_dec>>
  /\ UNCHANGED notVlqVars

VlqDecode ==
  /\ vlq_pc = "encoded"
  /\ vlq_dec' = _read_vlq(vlq_enc, 0)
  /\ vlq_pc' = "decoded"
  /\ UNCHANGED <<vlq_v, vlq_enc, vlq_start>>
  /\ UNCHANGED notVlqVars

(***************************************************************************)
(* _fix_meta (src/midi_processor.py:45-63).                                *)
(***************************************************************************)
\* _fix_meta that pads a short payload with zeros instead of replacing it.
FixMetaZeroPad(event_type, length, payload_bytes) ==
  LET pad(n) == payload_bytes \o [i \in 1..(n - Len(payload_bytes)) |-> 0]
  IN  CASE event_type = 88 ->
             IF length < 4 THEN pad(4) ELSE Slice(payload_bytes, 0, 4)
        [] event_type = 89 ->
             IF length < 2 THEN pad(2) ELSE Slice(payload_bytes, 0, 2)
        [] event_type = 81 ->
             IF length < 3 THEN pad(3) ELSE Slice(payload_bytes, 0, 3)
        [] event_type = 84 ->
             IF length < 5 THEN pad(5) ELSE Slice(payload_bytes, 0, 5)
        [] OTHER -> Slice(payload_bytes, 0, length)

_fix_meta(event_type, length, payload_bytes) ==
  CASE event_type = 88 ->                                 \* 0x58 time signature
         IF length < 4 THEN <<4, 2, 24, 8>> ELSE Slice(payload_bytes, 0, 4)
    [] event_type = 89 ->                                 \* 0x59 key signature
         IF length < 2 THEN <<0, 0>> ELSE Slice(payload_bytes, 0, 2)
    [] event_type = 81 ->                                 \* 0x51 tempo
         IF length < 3 THEN <<7, 161, 32>> ELSE Slice(payload_bytes, 0, 3)
    [] event_type = 84 ->                                 \* 0x54 SMPTE offset
         IF length < 5 THEN <<0, 0, 0, 0, 0>> ELSE Slice(payload_bytes, 0, 5)
    [] OTHER -> Slice(payload_bytes, 0, length)

(***************************************************************************)
(* struct.pack(">I", n) and struct.unpack(">I", b)[0].                     *)
(***************************************************************************)
PackBE32(n) ==
  << (n \div 16777216) % 256, (n \div 65536) % 256, (n \div 256) % 256, n % 256 >>

UnpackBE32(b) == ((b[1] * 256 + b[2]) * 256 + b[3]) * 256 + b[4]

MThd == <<77, 84, 104, 100>>
MTrk == <<77, 84, 114, 107>>

(***************************************************************************)
(* safe_load_midi (src/midi_processor.py:65-173), one action per step of   *)
(* its loops.  An index read at or past the end of the buffer is Python's  *)
(* IndexError: the step reports oob and the function raises.               *)
(***************************************************************************)
OutOfBuffer(buf, i) == i < 0 \/ i >= Len(buf)
ReadByte(buf, i) == IF OutOfBuffer(buf, i) THEN 0 ELSE buf[i + 1]

\* Line 71: no usable header, the repair is skipped.
NoHeader(buf) == Len(buf) < 14 \/ Slice(buf, 0, 4) # MThd

\* Line 82: no complete track chunk header at p.
NoTrackChunk(buf, p) == p + 8 > Len(buf) \/ Slice(buf, p, p + 4) # MTrk

\* Lines 124-125 and 142-143: a declared length clamped to what remains.
ClampLen(p, length, total_len) ==
  IF p + length > total_len THEN Max(0, total_len - p) ELSE length

\* Line 158 off by one: one missing data byte goes unnoticed.
ArgsMissingOffByOne(p, args, total_len) == p + args > total_len + 1

\* Line 158: fewer data bytes remain in the file than the event needs.
ArgsMissing(p, args, total_len) == p + args > total_len

\* Lines 150-155 with two data bytes for every status.
ArgCountAlwaysTwo(status) == 2

\* Lines 150-156: the number of data bytes of a channel event.
ArgCount(status) ==
  LET msg_type == (status \div 16) * 16
  IN  IF msg_type \in {128, 144, 160, 176, 224} THEN 2
      ELSE IF msg_type \in {192, 208} THEN 1
      ELSE 2

NoEvent ==
  [pos |-> 0, out |-> << >>, last_status |-> None, brk |-> FALSE,
   oob |-> FALSE, kind |-> "none", start |-> 0, status |-> None,
   running |-> FALSE, mtype |-> None, mlen |-> 0, ppos |-> 0]

\* Lines 114-133: a meta event whose type byte is at p.
MetaEvent(buf, p, te, ev) ==
  IF p >= te THEN [ev EXCEPT !.brk = TRUE, !.kind = "delta"]
  ELSE
    LET total_len == Len(buf)
        meta_type == ReadByte(buf, p)
        m         == _read_vlq(buf, p + 1)
        meta_len0 == IF m.value = None THEN 0 ELSE m.value
        p2        == m.pos
        meta_len  == ClampLen(p2, meta_len0, total_len)
        payload   == _fix_meta(meta_type, meta_len,
                               Slice(buf, p2, p2 + meta_len))
    IN  IF OutOfBuffer(buf, p) THEN [ev EXCEPT !.oob = TRUE]
        ELSE [ev EXCEPT !.kind = "meta", !.mtype = meta_type,
                        !.mlen = meta_len, !.ppos = p2,
                        !.pos = p2 + meta_len,
                        !.out = ev.out \o <<255, meta_type>>
                                \o _encode_vlq(Len(payload)) \o payload]

\* Lines 135-148: a system exclusive or escape event whose length is at p.
SysexEvent(buf, p, status, ev) ==
  LET total_len == Len(buf)
      m         == _read_vlq(buf, p)
      syx_len0  == IF m.value = None THEN 0 ELSE m.value
      p2        == m.pos
      syx_len   == ClampLen(p2, syx_len0, total_len)
  IN  [ev EXCEPT !.kind = "sysex", !.mlen = syx_len, !.ppos = p2,
                 !.pos = p2 + syx_len,
                 !.out = ev.out \o <<status>> \o _encode_vlq(syx_len)
                         \o Slice(buf, p2, p2 + syx_len)]

\* Lines 150-164: a channel event whose data bytes start at p.
ChannelEvent(buf, p, status, ev) ==
  LET total_len == Len(buf)
      args      == ArgCount(status)
  IN  IF ArgsMissing(p, args, total_len)
      THEN [ev EXCEPT !.brk = TRUE, !.kind = "delta"]
      ELSE IF \E i \in 0..(args - 1) : OutOfBuffer(buf, p + i)
      THEN [ev EXCEPT !.oob = TRUE]
      ELSE [ev EXCEPT !.kind = "chan", !.ppos = p, !.pos = p + args,
                      !.out = ev.out \o <<status>>
                              \o [i \in 1..args |-> ReadByte(buf, p + i - 1)]]

\* Lines 95-164: one iteration of the event loop, started at p0 < te.
EventStep(buf, p0, te, ls) ==
  LET d     == _read_vlq(buf, p0)
      delta == IF d.value = None THEN 0 ELSE d.value
      p1    == d.pos
      ev0   == [NoEvent EXCEPT !.pos = p1, !.out = _encode_vlq(delta),
                               !.last_status = ls, !.start = p0]
  IN  IF p1 >= te THEN [ev0 EXCEPT !.brk = TRUE, !.kind = "delta"]
      ELSE IF OutOfBuffer(buf, p1) THEN [ev0 EXCEPT !.oob = TRUE]
      ELSE
        LET status_b == ReadByte(buf, p1)
            explicit == status_b >= 128
            status   == IF explicit THEN status_b
                        ELSE IF ls # None THEN ls ELSE 144
            p2       == IF explicit THEN p1 + 1 ELSE p1
            ev1      == [ev0 EXCEPT !.pos = p2, !.status = status,
                                    !.running = ~explicit,
                                    !.last_status =
                                       IF explicit THEN status ELSE ls]
        IN  IF status = 255 THEN MetaEvent(buf, p2, te, ev1)
            ELSE IF status \in {240, 247} THEN SysexEvent(buf, p2, status, ev1)
            ELSE ChannelEvent(buf, p2, status, ev1)

\* Lines 169-173 without the fallback to the original bytes.
ParseOutcomeNoFallback(ok_san, ok_raw) ==
  IF ok_san THEN "sanitized" ELSE "raise"

\* Lines 169-173: the rebuilt buffer is parsed; if that fails the original
\* bytes are parsed instead, and a failure of that parse is raised.
ParseOutcome(ok_san, ok_raw) ==
  IF ok_san THEN "sanitized" ELSE IF ok_raw THEN "raw" ELSE "raise"

SanReset(buf) ==
  /\ san_pc' = "start"
  /\ raw' = buf
  /\ sanitized' = << >>
  /\ pos' = 0
  /\ track_len' = 0
  /\ track_end' = 0
  /\ track_out' = << >>
  /\ last_status' = None
  /\ san_result' = "none"
  /\ san_parses' = [san |-> FALSE, raw |-> FALSE]
  /\ san_ev' = NoEvent
  /\ san_bodies' = << >>

\* Lines 67-78.  The parser is mido's, which is no code of this repository:
\* whether it accepts a buffer is an input chosen here.
SanStart ==
  /\ san_pc = "start"
  /\ \/ /\ NoHeader(raw)
        /\ \E ok \in BOOLEAN :
             /\ san_parses' = [san |-> FALSE, raw |-> ok]
             /\ san_result' = IF ok THEN "direct" ELSE "raise"
        /\ san_pc' = "done"
        /\ UNCHANGED <<sanitized, pos>>
     \/ /\ ~NoHeader(raw)
        /\ sanitized' = Slice(raw, 0, 14)
        /\ pos' = 14
        /\ san_pc' = "chunk"
        /\ UNCHANGED <<san_result, san_parses>>
  /\ UNCHANGED <<raw, track_len, track_end, track_out, last_status, san_ev,
                 san_bodies, san_pass, san_input, san_first>>
  /\ UNCHANGED notSanVars

\* Lines 81-92: the head of the chunk loop.  struct.unpack raises on a
\* buffer that is not 4 bytes long.
SanChunk ==
  /\ san_pc = "chunk"
  /\ IF pos < Len(raw) /\ ~NoTrackChunk(raw, pos)
     THEN LET field == Slice(raw, pos + 4, pos + 8)
              tl    == IF Len(field) = 4 THEN UnpackBE32(field) ELSE 0
              te    == pos + 8 + tl
          IN  IF Len(field) # 4
              THEN /\ san_pc' = "raised"
                   /\ san_result' = "raise"
                   /\ sanitized' = sanitized \o Slice(raw, pos, pos + 4)
                   /\ UNCHANGED <<pos, track_len, track_end, track_out,
                                  last_status>>
              ELSE /\ sanitized' = sanitized \o Slice(raw, pos, pos + 4)
                   /\ track_len' = tl
                   /\ pos' = pos + 8
                   /\ track_end' = IF te > Len(raw) THEN Len(raw) ELSE te
                   /\ track_out' = << >>
                   /\ last_status' = None
                   /\ san_pc' = "event"
                   /\ UNCHANGED san_result
     ELSE /\ san_pc' = "parse"
          /\ UNCHANGED <<sanitized, pos, track_len, track_end, track_out,
                         last_status, san_result>>
  /\ UNCHANGED <<raw, san_parses, san_ev, san_bodies, san_pass, san_input,
                 san_first>>
  /\ UNCHANGED notSanVars

\* Lines 94-164: one iteration of the event loop.
SanEvent ==
  /\ san_pc = "event"
  /\ pos < track_end
  /\ LET ev == EventStep(raw, pos, track_end, last_status)
     IN  /\ san_ev' = ev
         /\ pos' = ev.pos
         /\ last_status' = ev.last_status
         /\ track_out' = IF ev.oob THEN track_out ELSE track_out \o ev.out
         /\ san_pc' = IF ev.oob THEN "raised"
                      ELSE IF ev.brk THEN "close" ELSE "event"
         /\ san_result' = IF ev.oob THEN "raise" ELSE san_result
  /\ UNCHANGED <<raw, sanitized, track_len, track_end, san_parses,
                 san_bodies, san_pass, san_input, san_first>>
  /\ UNCHANGED notSanVars

\* Line 166 with the length field of the original chunk written back.
TrackLenFieldDeclared(body, declared) == PackBE32(declared)

\* Line 166: the length field written for a rebuilt track body.
TrackLenField(body, declared) == PackBE32(Len(body))

\* Lines 166-167: the chunk length and the rebuilt body are written.
SanClose ==
  /\ \/ san_pc = "event" /\ pos >= track_end
     \/ san_pc = "close"
  /\ sanitized' = sanitized \o TrackLenField(track_out, track_len)
                            \o track_out
  /\ san_bodies' = Append(san_bodies, track_out)
  /\ san_pc' = "chunk"
  /\ UNCHANGED <<raw, pos, track_len, track_end, track_out, last_status,
                 san_result, san_parses, san_ev, san_pass, san_input,
                 san_first>>
  /\ UNCHANGED notSanVars

\* Lines 169-173.  Equal buffers parse alike.
SanParse ==
  /\ san_pc = "parse"
  /\ \E ok_san \in BOOLEAN, ok_raw \in BOOLEAN :
       /\ sanitized = raw => ok_san = ok_raw
       /\ san_parses' = [san |-> ok_san, raw |-> ok_raw]
       /\ san_result' = ParseOutcome(ok_san, ok_raw)
  /\ san_pc' = "done"
  /\ UNCHANGED <<raw, sanitized, pos, track_len, track_end, track_out,
                 last_status, san_ev, san_bodies, san_pass, san_input,
                 san_first>>
  /\ UNCHANGED notSanVars

\* The rebuilt buffer of pass 1 is written out and rebuilt again.
SanAgain ==
  /\ san_pc = "parse"
  /\ san_pass = 1
  /\ SanReset(sanitized)
  /\ san_pass' = 2
  /\ san_first' = sanitized
  /\ UNCHANGED san_input
  /\ UNCHANGED notSanVars

(***************************************************************************)
(* SpecSan: safe_load_midi on bounded files.  A file is a 14-byte header,  *)
(* one track chunk whose body is a sequence of at most MaxFrags events of  *)
(* SanEvents, a declared chunk length that is right or off by one, a tail  *)
(* (nothing, a second track chunk, one that starts in running status, a    *)
(* chunk header cut short, or bytes that are no chunk) and a cut of the    *)
(* last bytes of the file; or one of the files of SanSpecialFiles.         *)
(***************************************************************************)
MaxFrags == 2

SanHeader == MThd \o <<0, 0, 0, 6, 0, 1, 0, 1, 1, 224>>

SanEvents ==
  << <<0, 144, 60, 64>>,                  \* note-on, explicit status
     <<0, 62, 64>>,                       \* note-on in running status
     <<0, 192, 5>>,                       \* program change, one data byte
     <<129, 0, 128, 60, 0>>,              \* two-byte delta, note-off
     <<0, 240, 2, 1, 247>>,               \* system exclusive
     <<0, 255, 47, 0>>,                   \* end of track
     <<129, 129, 129, 129, 129>>,         \* a VLQ that never terminates
     <<0, 255, 88, 3, 1, 2, 3>>,          \* time signature: short
     <<0, 255, 88, 4, 1, 2, 3, 4>>,       \*   exact
     <<0, 255, 88, 5, 1, 2, 3, 4, 5>>,    \*   long
     <<0, 255, 89, 1, 1>>,                \* key signature: short
     <<0, 255, 89, 2, 1, 2>>,             \*   exact
     <<0, 255, 89, 3, 1, 2, 3>>,          \*   long
     <<0, 255, 81, 2, 1, 2>>,             \* tempo: short
     <<0, 255, 81, 3, 1, 2, 3>>,          \*   exact
     <<0, 255, 81, 4, 1, 2, 3, 4>>,       \*   long
     <<0, 255, 84, 4, 1, 2, 3, 4>>,       \* SMPTE offset: short
     <<0, 255, 84, 5, 1, 2, 3, 4, 5>>,    \*   exact
     <<0, 255, 84, 6, 1, 2, 3, 4, 5, 6>>  \*   long
  >>

SanDeclDeltas == {-1, 0, 1}
SanCuts == {0, 1, 2}
SanTails ==
  { << >>,
    MTrk \o <<0, 0, 0, 4>> \o <<0, 255, 47, 0>>,
    MTrk \o <<0, 0, 0, 7>> \o <<0, 62, 64, 0, 255, 47, 0>>,
    MTrk \o <<0, 0, 0>>,
    <<88, 88, 88, 88, 0, 0, 0, 1, 0>> }

SanSpecialFiles ==
  { << >>,
    Slice(SanHeader, 0, 13),
    MTrk \o Slice(SanHeader, 4, 14) \o <<0>>,
    \* a header chunk of 8 bytes: the first track chunk starts at byte 16
    MThd \o <<0, 0, 0, 8, 0, 1, 0, 1, 1, 224, 0, 0>>
         \o MTrk \o <<0, 0, 0, 4>> \o <<0, 255, 47, 0>> }

RECURSIVE Flatten(_)
Flatten(ss) == IF ss = << >> THEN << >> ELSE Head(ss) \o Flatten(Tail(ss))

SanBodies ==
  { Flatten([i \in 1..Len(ix) |-> SanEvents[ix[i]]]) :
      ix \in UNION { [1..n -> 1..Len(SanEvents)] : n \in 0..MaxFrags } }

SanFiles ==
  { LET whole == SanHeader \o MTrk \o PackBE32(Max(0, Len(body) + dd))
                   \o body \o tail
    IN  Slice(whole, 0, Len(whole) - cut) :
      body \in SanBodies, dd \in SanDeclDeltas, tail \in SanTails,
      cut \in SanCuts }
  \cup SanSpecialFiles

SanIdle ==
  /\ san_pc = "idle" /\ raw = << >> /\ sanitized = << >> /\ pos = 0
  /\ track_len = 0 /\ track_end = 0 /\ track_out = << >>
  /\ last_status = None
  /\ san_result = "none" /\ san_parses = [san |-> FALSE, raw |-> FALSE]
  /\ san_ev = NoEvent /\ san_bodies = << >> /\ san_pass = 1
  /\ san_input = << >> /\ san_first = << >>

InitSan ==
  /\ raw \in SanFiles
  /\ san_input = raw
  /\ san_pc = "start" /\ sanitized = << >> /\ pos = 0
  /\ track_len = 0 /\ track_end = 0 /\ track_out = << >>
  /\ last_status = None
  /\ san_result = "none" /\ san_parses = [san |-> FALSE, raw |-> FALSE]
  /\ san_ev = NoEvent /\ san_bodies = << >> /\ san_pass = 1
  /\ san_first = << >>

InitSpecSan == InitSan /\ VlqIdle /\ RedIdle /\ RunIdle /\ GuiIdle /\ AhkIdle

NextSan ==
  SanStart \/ SanChunk \/ SanEvent \/ SanClose \/ SanParse \/ SanAgain

SpecSan == InitSpecSan /\ [][NextSan]_vars

InitSpecVlq == InitVlq /\ SanIdle /\ RedIdle /\ RunIdle /\ GuiIdle /\ AhkIdle

\* The buffers _read_vlq is applied to directly: bytes with and without
\* the continuation bit, up to one byte more than the scan can take.
MaxVlqBuf == 5
RawVlqBytes == {0, 1, 127, 128, 129}
RawVlqBuffers ==
  UNION { [1..len -> RawVlqBytes] : len \in 0..MaxVlqBuf }

\* _read_vlq on bytes that need not be an encoding, as safe_load_midi calls
\* it (lines 95, 119, 137).
VlqRead ==
  /\ vlq_pc = "start"
  /\ vlq_v = 0
  /\ \E buf \in RawVlqBuffers, p \in {0, 1} :
       /\ vlq_enc' = buf
       /\ vlq_start' = p
       /\ vlq_dec' = _read_vlq(buf, p)
  /\ vlq_pc' = "read"
  /\ UNCHANGED vlq_v
  /\ UNCHANGED notVlqVars

NextVlq == VlqEncode \/ VlqDecode \/ VlqRead

SpecVlq == InitSpecVlq /\ [][NextVlq]_vars

(***************************************************************************)
(* reduce_chords_to_root (src/midi_processor.py:175-202).  Indices are     *)
(* 0-based as in the source.                                               *)
(***************************************************************************)
RECURSIVE ChordEndSliding(_, _, _, _)
\* The inner loop of lines 190-192 comparing each note with the note
\* before it.
ChordEndSliding(notes, i, j, tol) ==
  IF j < Len(notes) /\ notes[j + 1][1] - notes[j][1] <= tol
  THEN ChordEndSliding(notes, i, j + 1, tol)
  ELSE j

RECURSIVE ChordEndStrictlyWithin(_, _, _, _)
\* The inner loop of lines 190-192 taking a note only when it is less
\* than the tolerance after the first.
ChordEndStrictlyWithin(notes, i, j, tol) ==
  IF j < Len(notes) /\ notes[j + 1][1] - notes[i + 1][1] < tol
  THEN ChordEndStrictlyWithin(notes, i, j + 1, tol)
  ELSE j

RECURSIVE ChordEnd(_, _, _, _)
\* The inner loop of lines 190-192: the j it stops at.
ChordEnd(notes, i, j, tol) ==
  IF j < Len(notes) /\ notes[j + 1][1] - notes[i + 1][1] <= tol
  THEN ChordEnd(notes, i, j + 1, tol)
  ELSE j

\* min(chord_notes, key=pitch) of line 195: the first note of the lowest
\* pitch.
RootNote(chord_notes) ==
  LET k == CHOOSE k \in 1..Len(chord_notes) :
             /\ \A m \in 1..Len(chord_notes) :
                  chord_notes[k][2] <= chord_notes[m][2]
             /\ \A m \in 1..(k - 1) : chord_notes[m][2] > chord_notes[k][2]
  IN  chord_notes[k]

RECURSIVE ReduceLoop(_, _, _, _)
\* The outer loop of lines 187-200.
ReduceLoop(notes, i, tol, reduced_notes) ==
  IF i < Len(notes)
  THEN LET j           == ChordEnd(notes, i, i + 1, tol)
           chord_notes == SubSeq(notes, i + 1, j)
       IN  ReduceLoop(notes, j, tol,
                      Append(reduced_notes,
                             IF Len(chord_notes) > 1
                             THEN RootNote(chord_notes)
                             ELSE chord_notes[1]))
  ELSE reduced_notes

reduce_chords_to_root(notes, tolerance_ms) ==
  IF notes = << >> THEN << >>
  ELSE ReduceLoop(notes, 0, tolerance_ms, << >>)

(***************************************************************************)
(* SpecReduce: reduce_chords_to_root applied to every list of at most      *)
(* MaxNotes notes in ascending time order over RedTimes and RedPitches.    *)
(***************************************************************************)
MaxNotes == 3
RedTimes == {0, 10, 30, 40, 50}
RedPitches == {60, 64, 67}
RedTols == {0, 30}

RedInputs ==
  UNION { { ns \in [1..n -> RedTimes \X RedPitches \X {0}] :
              \A k \in 1..(n - 1) : ns[k][1] <= ns[k + 1][1] }
          : n \in 0..MaxNotes }

InitRed ==
  /\ red_pc = "start"
  /\ red_notes \in RedInputs
  /\ red_tol \in RedTols
  /\ red_out = << >>

RedReduce ==
  /\ red_pc = "start"
  /\ red_out' = reduce_chords_to_root(red_notes, red_tol)
  /\ red_pc' = "done"
  /\ UNCHANGED <<red_notes, red_tol>>
  /\ UNCHANGED notRedVars

InitSpecReduce == InitRed /\ VlqIdle /\ SanIdle /\ RunIdle /\ GuiIdle /\ AhkIdle

NextReduce == RedReduce

SpecReduce == InitSpecReduce /\ [][NextReduce]_vars

(***************************************************************************)
(* The tables of src/keyboard_map.py and their fallbacks in                *)
(* src/midi_processor.py:11-18.  A note name is <<pitch class, octave>>.   *)
(***************************************************************************)
PitchClasses ==
  <<"C", "C#", "D", "D#", "E", "F", "F#", "G", "G#", "A", "A#", "B">>

\* midi_note_names: 9 octaves of 12 names, index 0 is C1.
midi_note_names ==
  [i \in 0..(9 * 12 - 1) |-> <<PitchClasses[(i % 12) + 1], (i \div 12) + 1>>]

NumNoteNames == Cardinality(DOMAIN midi_note_names)

\* The rows of keys of octaves 4, 3 and 2, for C D E F G A B.
KeyRows ==
  [o \in {2, 3, 4} |->
     CASE o = 4 -> <<"q", "w", "e", "r", "t", "y", "u">>
       [] o = 3 -> <<"a", "s", "d", "f", "g", "h", "j">>
       [] o = 2 -> <<"z", "x", "c", "v", "b", "n", "m">>]

\* The table note_to_key with its ctrl entries spelled as sharps, D# and
\* A#, the way midi_note_names spells them.
NoteToKeyTableSharpSpelled ==
  LET naturals == <<"C", "D", "E", "F", "G", "A", "B">>
      sharps   == {<<"C#", 1>>, <<"F#", 4>>, <<"G#", 5>>}
      flats    == {<<"D#", 3>>, <<"A#", 7>>}
  IN  { <<<<naturals[k], o>>, <<KeyRows[o][k], "normal">>>> :
          k \in 1..7, o \in {2, 3, 4} }
      \cup { <<<<x[1], o>>, <<KeyRows[o][x[2]], "shift">>>> :
               x \in sharps, o \in {2, 3, 4} }
      \cup { <<<<x[1], o>>, <<KeyRows[o][x[2]], "ctrl">>>> :
               x \in flats, o \in {2, 3, 4} }

\* The table note_to_key as a set of <<name, <<key, mode>>>> entries:
\* naturals, sharps C# F# G# with shift, flats Eb Bb with ctrl.
NoteToKeyTable ==
  LET naturals == <<"C", "D", "E", "F", "G", "A", "B">>
      sharps   == {<<"C#", 1>>, <<"F#", 4>>, <<"G#", 5>>}
      flats    == {<<"Eb", 3>>, <<"Bb", 7>>}
  IN  { <<<<naturals[k], o>>, <<KeyRows[o][k], "normal">>>> :
          k \in 1..7, o \in {2, 3, 4} }
      \cup { <<<<x[1], o>>, <<KeyRows[o][x[2]], "shift">>>> :
               x \in sharps, o \in {2, 3, 4} }
      \cup { <<<<x[1], o>>, <<KeyRows[o][x[2]], "ctrl">>>> :
               x \in flats, o \in {2, 3, 4} }

\* The indices of midi_note_names whose name is a key of the table.
MappableMidiNumbers ==
  { i \in DOMAIN midi_note_names :
      \E e \in NoteToKeyTable : e[1] = midi_note_names[i] }

TableMinMappedNote ==
  CHOOSE i \in MappableMidiNumbers : \A k \in MappableMidiNumbers : i <= k

TableMaxMappedNote ==
  CHOOSE i \in MappableMidiNumbers : \A k \in MappableMidiNumbers : i >= k

FallbackMinMappedNote == 36
FallbackMaxMappedNote == 83

note_to_key == IF keyboard_map = "table" THEN NoteToKeyTable ELSE {}

MIN_MAPPED_NOTE ==
  IF keyboard_map = "table" THEN TableMinMappedNote
  ELSE FallbackMinMappedNote

MAX_MAPPED_NOTE ==
  IF keyboard_map = "table" THEN TableMaxMappedNote
  ELSE FallbackMaxMappedNote

(***************************************************************************)
(* MidiProcessor.run (src/midi_processor.py:228-389).                      *)
(***************************************************************************)
\* Ticks turned into time at the default tempo whatever the tempo is.
Tick2MsDefaultTempo(tick, ticks_per_beat, tempo_us) ==
  (tick * 500) \div ticks_per_beat

\* mido.tick2second (line 300) in milliseconds; tempo is in microseconds
\* per beat.
Tick2Ms(tick, ticks_per_beat, tempo_us) ==
  (tick * (tempo_us \div 1000)) \div ticks_per_beat

\* The note-ons of a track whatever their velocity.
IsNoteOnAnyVelocity(msg) == msg.type = "note_on"

\* The messages of a track that are note-ons with a velocity above 0.
IsNoteOn(msg) == msg.type = "note_on" /\ msg.velocity > 0

RECURSIVE ScanName(_, _)
\* Lines 246-251: the name after the messages of a track, from a default.
ScanName(tr, name) ==
  IF tr = << >> THEN name
  ELSE ScanName(Tail(tr),
                IF Head(tr).type = "track_name" THEN Head(tr).name ELSE name)

\* Lines 244-254: the entry of track i (0-based); the default name is
\* "Track" with the number i + 1.
TrackMetaEntry(i, tr) ==
  <<i, ScanName(tr, <<"Track", i + 1>>),
    Cardinality({k \in 1..Len(tr) : IsNoteOn(tr[k])})>>

\* Every track of a file of two tracks, selected or not.
SetToSeqOfAllTracks(S) == <<0, 1>>

RECURSIVE SetToSeq(_)
\* The elements of a set of track indices in the order a Python set of
\* small integers is iterated: ascending.
SetToSeq(S) ==
  IF S = {} THEN << >>
  ELSE LET m == CHOOSE x \in S : \A y \in S : x <= y
       IN  <<m>> \o SetToSeq(S \ {m})

RECURSIVE SumLen(_, _)
\* Line 262: the messages of the selected tracks.
SumLen(tracks, sel) ==
  IF sel = << >> THEN 0
  ELSE Len(tracks[Head(sel) + 1]) + SumLen(tracks, Tail(sel))

\* Lines 304-310 with the windows of the track ignored.
InTimeRangesIgnored(track, t) == TRUE

\* Lines 304-310: whether the per-track windows let a time through.
InTimeRanges(track, t) ==
  track \in DOMAIN time_ranges =>
    \E k \in 1..Len(time_ranges[track]) :
      time_ranges[track][k][1] <= t /\ t <= time_ranges[track][k][2]

RECURSIVE SortByTimeUnstable(_)
\* A sort by time that puts a note before the notes of the same time.
SortByTimeUnstable(notes) ==
  IF notes = << >> THEN << >>
  ELSE LET n      == notes[Len(notes)]
           sorted == SortByTimeUnstable(SubSeq(notes, 1, Len(notes) - 1))
           k      == Cardinality({m \in 1..Len(sorted) :
                                    sorted[m][1] < n[1]})
       IN  SubSeq(sorted, 1, k) \o <<n>>
             \o SubSeq(sorted, k + 1, Len(sorted))

RECURSIVE SortByTime(_)
\* list.sort(key=time) of lines 320 and 356: a stable sort.
SortByTime(notes) ==
  IF notes = << >> THEN << >>
  ELSE LET n      == notes[Len(notes)]
           sorted == SortByTime(SubSeq(notes, 1, Len(notes) - 1))
           k      == Cardinality({m \in 1..Len(sorted) :
                                    sorted[m][1] <= n[1]})
       IN  SubSeq(sorted, 1, k) \o <<n>>
             \o SubSeq(sorted, k + 1, Len(sorted))

\* Lines 334-345 with a pitch moved to the nearest end of the range.
AutoMapToNearestEnd(note_idx) ==
  IF note_idx < MIN_MAPPED_NOTE THEN MIN_MAPPED_NOTE
  ELSE IF note_idx > MAX_MAPPED_NOTE THEN MAX_MAPPED_NOTE
  ELSE note_idx

\* Lines 334-345 without the "+ 1" of the number of octaves.
AutoMapNoExtraOctave(note_idx) ==
  IF note_idx < MIN_MAPPED_NOTE
  THEN note_idx + ((MIN_MAPPED_NOTE - note_idx) \div 12) * 12
  ELSE IF note_idx > MAX_MAPPED_NOTE
  THEN note_idx - ((note_idx - MAX_MAPPED_NOTE) \div 12) * 12
  ELSE note_idx

\* Lines 334-345: the pitch auto-map gives a note.
AutoMap(note_idx) ==
  IF note_idx < MIN_MAPPED_NOTE
  THEN note_idx + (((MIN_MAPPED_NOTE - note_idx) \div 12) + 1) * 12
  ELSE IF note_idx > MAX_MAPPED_NOTE
  THEN note_idx - (((note_idx - MAX_MAPPED_NOTE) \div 12) + 1) * 12
  ELSE note_idx

\* Lines 330-346.
AutoMapNotes(notes) ==
  IF automap_out_of_range
  THEN [k \in 1..Len(notes) |->
          <<notes[k][1], AutoMap(notes[k][2]), notes[k][3]>>]
  ELSE notes

\* Lines 350-353.
TimeFrameFilter(notes) ==
  SelectSeq(notes, LAMBDA n : start_time <= n[1] /\ n[1] <= end_time)

\* Lines 360-374 with the ends of the mappable range left out of it.
ResolveStrictRange(n) ==
  LET is_in_range == MIN_MAPPED_NOTE < n[2] /\ n[2] < MAX_MAPPED_NOTE
      hits == IF is_in_range /\ n[2] \in DOMAIN midi_note_names
              THEN {e \in note_to_key : e[1] = midi_note_names[n[2]]}
              ELSE {}
      km   == IF hits = {} THEN <<"None", "None">>
              ELSE (CHOOSE e \in hits : TRUE)[2]
  IN  <<n[1], n[2], km[1], km[2], is_in_range, n[3]>>

\* Lines 360-374: (seconds, note_idx, key, mode, is_in_range, track_idx).
Resolve(n) ==
  LET is_in_range == MIN_MAPPED_NOTE <= n[2] /\ n[2] <= MAX_MAPPED_NOTE
      hits == IF is_in_range /\ n[2] \in DOMAIN midi_note_names
              THEN {e \in note_to_key : e[1] = midi_note_names[n[2]]}
              ELSE {}
      km   == IF hits = {} THEN <<"None", "None">>
              ELSE (CHOOSE e \in hits : TRUE)[2]
  IN  <<n[1], n[2], km[1], km[2], is_in_range, n[3]>>

\* Lines 378-383 with a colour for each selected track only.
TrackColorsOfSelected(num_tracks) ==
  [i \in 1..Cardinality(DOMAIN track_settings) |->
     ((i - 1) * 360) \div num_tracks]

\* Lines 378-383: the hue of each track's colour.
TrackColors(num_tracks) ==
  [i \in 1..num_tracks |-> ((i - 1) * 360) \div num_tracks]

Emit(sig, arg) == [sig |-> sig, arg |-> arg]

\* Lines 229-237: the file is loaded; a failure ends the run with an empty
\* result.
RunLoad ==
  /\ run_pc = "load"
  /\ IF ~mid.ok
     THEN /\ emitted' = Append(emitted, Emit("finished", <<<< >>, << >>>>))
          /\ run_pc' = "done"
          /\ UNCHANGED tempo
     ELSE /\ tempo' = 500000
          /\ run_pc' = "scan"
          /\ UNCHANGED emitted
  /\ track_meta' = << >>
  /\ UNCHANGED <<mid, track_settings, time_ranges, start_time, end_time,
                 chord_tolerance_ms, automap_out_of_range, keyboard_map,
                 interruption, selected_tracks, ti, msg_i, abs_time,
                 track_notes, all_merged_notes, total_msgs, processed_msgs,
                 note_log, merged_notes, automapped_notes>>
  /\ UNCHANGED notRunVars

RECURSIVE Pow2(_)
Pow2(e) == IF e = 0 THEN 1 ELSE 2 * Pow2(e - 1)

RECURSIVE FloorLog2(_)
FloorLog2(m) == IF m < 2 THEN 0 ELSE 1 + FloorLog2(m \div 2)

\* The least a >= 1 with k * 2^a >= total, for 0 < k < total: k / total
\* lies in [2^-a, 2^(1-a)).
RECURSIVE BinadeShift(_, _)
BinadeShift(k, total) ==
  IF 2 * k >= total THEN 1 ELSE 1 + BinadeShift(2 * k, total)

\* (k * 2^j) % total.
RECURSIVE DoubleMod(_, _, _)
DoubleMod(k, j, total) ==
  IF j = 0 THEN k % total ELSE (2 * DoubleMod(k, j - 1, total)) % total

\* Line 288: int(processed_msgs / total_msgs * 100) in double precision
\* floats, for 0 < processed <= total.  The quotient is rounded to 53
\* bits, the product with 100 is rounded again, and int() truncates.  When
\* total does not divide 100 * processed the two roundings are too small
\* to change the integer part.  When it does, with m = 100 * processed /
\* total, the quotient is off by d / total units of its last place, where
\* r is the remainder left by the 53 bits and d = r, or r - total when the
\* quotient is rounded up; the product falls short of m, and int() gives
\* m - 1, when 100 * d / total units exceed half the spacing of the
\* floats below m.
ProgressValue(processed, total) ==
  IF (100 * processed) % total # 0 \/ processed = total
  THEN (100 * processed) \div total
  ELSE LET m  == (100 * processed) \div total
           a  == BinadeShift(processed, total)
           r  == DoubleMod(processed, 52 + a, total)
           d  == IF 2 * r > total THEN r - total ELSE r
           f  == FloorLog2(m)
           fb == IF Pow2(f) = m THEN f - 1 ELSE f
       IN  IF 100 * d > total * Pow2(fb + a - 1) THEN m - 1 ELSE m

\* Line 298 without the upper end of the name table.
InNameTableNonNegative(note) == 0 <= note

\* Line 298: whether a shifted pitch is an index of midi_note_names.
InNameTable(note) == 0 <= note /\ note < NumNoteNames

\* A run that never sees the flag.
NeverInterrupted == FALSE

\* self.isInterruptionRequested(), lines 242, 267 and 283.
isInterruptionRequested == interruption

\* Lines 241-254: one track is scanned, unless interruption was requested.
RunScanTrack ==
  /\ run_pc = "scan"
  /\ Len(track_meta) < Len(mid.tracks)
  /\ IF isInterruptionRequested
     THEN /\ run_pc' = "returned"
          /\ UNCHANGED track_meta
     ELSE /\ track_meta' =
               Append(track_meta,
                      TrackMetaEntry(Len(track_meta),
                                     mid.tracks[Len(track_meta) + 1]))
          /\ UNCHANGED run_pc
  /\ UNCHANGED <<mid, track_settings, time_ranges, start_time, end_time,
                 chord_tolerance_ms, automap_out_of_range, keyboard_map,
                 interruption, tempo, selected_tracks, ti, msg_i, abs_time,
                 track_notes, all_merged_notes, total_msgs, processed_msgs,
                 emitted, note_log, merged_notes, automapped_notes>>
  /\ UNCHANGED notRunVars

\* Lines 256-264: track_info is emitted and the selected tracks are set up;
\* indexing a track the file does not have raises.
RunTrackInfo ==
  /\ run_pc = "scan"
  /\ Len(track_meta) = Len(mid.tracks)
  /\ emitted' = Append(emitted, Emit("track_info", track_meta))
  /\ IF \E t \in DOMAIN track_settings : t >= Len(mid.tracks)
     THEN /\ run_pc' = "raised"
          /\ UNCHANGED <<selected_tracks, total_msgs>>
     ELSE /\ run_pc' = "tracks"
          /\ selected_tracks' = SetToSeq(DOMAIN track_settings)
          /\ total_msgs' = SumLen(mid.tracks, SetToSeq(DOMAIN track_settings))
  /\ all_merged_notes' = << >>
  /\ processed_msgs' = 0
  /\ UNCHANGED <<mid, track_settings, time_ranges, start_time, end_time,
                 chord_tolerance_ms, automap_out_of_range, keyboard_map,
                 interruption, tempo, track_meta, ti, msg_i, abs_time,
                 track_notes, note_log, merged_notes, automapped_notes>>
  /\ UNCHANGED notRunVars

\* Lines 266-280: the next selected track is started, unless interruption
\* was requested.
RunTrackBegin ==
  /\ run_pc = "tracks"
  /\ selected_tracks # << >>
  /\ IF isInterruptionRequested
     THEN /\ run_pc' = "returned"
          /\ UNCHANGED <<selected_tracks, ti, msg_i, abs_time, track_notes>>
     ELSE /\ ti' = Head(selected_tracks)
          /\ selected_tracks' = Tail(selected_tracks)
          /\ abs_time' = 0
          /\ track_notes' = << >>
          /\ msg_i' = 0
          /\ run_pc' = "msg"
  /\ UNCHANGED <<mid, track_settings, time_ranges, start_time, end_time,
                 chord_tolerance_ms, automap_out_of_range, keyboard_map,
                 interruption, tempo, track_meta, all_merged_notes,
                 total_msgs, processed_msgs, emitted, note_log,
                 merged_notes, automapped_notes>>
  /\ UNCHANGED notRunVars

\* Lines 282-316: one message of the track is processed, unless
\* interruption was requested.
RunMsg ==
  /\ run_pc = "msg"
  /\ msg_i < Len(mid.tracks[ti + 1])
  /\ IF isInterruptionRequested
     THEN /\ run_pc' = "returned"
          /\ UNCHANGED <<msg_i, processed_msgs, emitted, abs_time, tempo,
                         track_notes, note_log>>
     ELSE LET msg      == mid.tracks[ti + 1][msg_i + 1]
              settings == track_settings[ti]
              ticks    == abs_time + msg.time
              tempo1   == IF msg.type = "set_tempo" THEN msg.tempo ELSE tempo
              note     == msg.note + (settings.octave_shift * 12)
                            + settings.semitone_shift
              seconds  == Tick2Ms(ticks, mid.ticks_per_beat, tempo1)
              adjusted_seconds == seconds + settings.time_shift
              in_table == InNameTable(note)
              kept     == /\ in_table
                          /\ InTimeRanges(ti, adjusted_seconds)
                          /\ adjusted_seconds >= 0
          IN  /\ processed_msgs' = processed_msgs + 1
              /\ emitted' =
                   IF total_msgs > 0
                   THEN Append(emitted,
                               Emit("progress",
                                    ProgressValue(processed_msgs + 1,
                                                  total_msgs)))
                   ELSE emitted
              /\ abs_time' = ticks
              /\ tempo' = tempo1
              /\ track_notes' =
                   IF IsNoteOn(msg) /\ kept
                   THEN Append(track_notes, <<adjusted_seconds, note, ti>>)
                   ELSE track_notes
              /\ note_log' =
                   IF IsNoteOn(msg)
                   THEN Append(note_log,
                               [ti |-> ti, msg |-> msg, note |-> note,
                                time |-> adjusted_seconds, kept |-> kept])
                   ELSE note_log
              /\ msg_i' = msg_i + 1
              /\ UNCHANGED run_pc
  /\ UNCHANGED <<mid, track_settings, time_ranges, start_time, end_time,
                 chord_tolerance_ms, automap_out_of_range, keyboard_map,
                 interruption, track_meta, selected_tracks, ti,
                 all_merged_notes, total_msgs, merged_notes,
                 automapped_notes>>
  /\ UNCHANGED notRunVars

\* Lines 318-325: the notes of the track are reduced if the track asks for
\* it, and added to the merged notes.
RunTrackEnd ==
  /\ run_pc = "msg"
  /\ msg_i = Len(mid.tracks[ti + 1])
  /\ all_merged_notes' =
       all_merged_notes
         \o (IF track_settings[ti].reduce_to_root
             THEN reduce_chords_to_root(SortByTime(track_notes),
                                        chord_tolerance_ms)
             ELSE track_notes)
  /\ run_pc' = "tracks"
  /\ UNCHANGED <<mid, track_settings, time_ranges, start_time, end_time,
                 chord_tolerance_ms, automap_out_of_range, keyboard_map,
                 interruption, tempo, track_meta, selected_tracks, ti, msg_i,
                 abs_time, track_notes, total_msgs, processed_msgs, emitted,
                 note_log, merged_notes, automapped_notes>>
  /\ UNCHANGED notRunVars

\* Lines 327-389: auto-map, the time frame, the sort, the resolver and the
\* colours; progress 100 and finished are emitted.
RunFinish ==
  /\ run_pc = "tracks"
  /\ selected_tracks = << >>
  /\ merged_notes' = all_merged_notes
  /\ automapped_notes' = AutoMapNotes(all_merged_notes)
  /\ all_merged_notes' = AutoMapNotes(all_merged_notes)
  /\ LET final_notes == SortByTime(TimeFrameFilter(
                                     AutoMapNotes(all_merged_notes)))
         visualization_data ==
           [k \in 1..Len(final_notes) |-> Resolve(final_notes[k])]
     IN  emitted' = emitted
           \o <<Emit("progress", 100),
                Emit("finished",
                     <<visualization_data, TrackColors(Len(track_meta))>>)>>
  /\ run_pc' = "done"
  /\ UNCHANGED <<mid, track_settings, time_ranges, start_time, end_time,
                 chord_tolerance_ms, automap_out_of_range, keyboard_map,
                 interruption, tempo, track_meta, selected_tracks, ti, msg_i,
                 abs_time, track_notes, total_msgs, processed_msgs, note_log>>
  /\ UNCHANGED notRunVars

\* QThread.requestInterruption, called by the window while the run is
\* going (src/gui_main.py:132-134).
RequestInterruption ==
  /\ run_pc \in {"load", "scan", "tracks", "msg"}
  /\ ~interruption
  /\ interruption' = TRUE
  /\ UNCHANGED <<run_pc, mid, track_settings, time_ranges, start_time,
                 end_time, chord_tolerance_ms, automap_out_of_range,
                 keyboard_map, tempo, track_meta, selected_tracks, ti, msg_i,
                 abs_time, track_notes, all_merged_notes, total_msgs,
                 processed_msgs, emitted, note_log, merged_notes,
                 automapped_notes>>
  /\ UNCHANGED notRunVars

\* The terminal result: the notes of the finished signal of a run that got
\* to its end.
Finished == run_pc = "done" /\ mid.ok
visualization_data == emitted[Len(emitted)].arg[1]

(***************************************************************************)
(* SpecRun: one run of the processor on a file of two tracks, each one of  *)
(* RunTracks, under every configuration that differs from the default one  *)
(* (both tracks selected with neutral settings, no windows, the default    *)
(* time frame, auto-map off, the shipped keyboard table, a chord tolerance *)
(* of 30 ms) in at most                                                    *)
(* MaxKnobs places; or a run on a file that does not load.  The files have *)
(* 500 ticks per beat, so that a tick is 1 ms at the default tempo.        *)
(***************************************************************************)
MaxKnobs == 2
MaxOctaves == 2

NoteOnMsg(dt, n, v) ==
  [type |-> "note_on", time |-> dt, note |-> n, velocity |-> v,
   tempo |-> 0, name |-> << >>]
NoteOffMsg(dt, n) ==
  [type |-> "note_off", time |-> dt, note |-> n, velocity |-> 0,
   tempo |-> 0, name |-> << >>]
SetTempoMsg(dt, t) ==
  [type |-> "set_tempo", time |-> dt, note |-> 0, velocity |-> 0,
   tempo |-> t, name |-> << >>]
TrackNameMsg(dt, nm) ==
  [type |-> "track_name", time |-> dt, note |-> 0, velocity |-> 0,
   tempo |-> 0, name |-> <<nm>>]

RunTracks ==
  { << >>,
    <<TrackNameMsg(0, "Lead"), NoteOnMsg(0, 60, 64), NoteOnMsg(10, 64, 64),
      NoteOnMsg(40, 67, 64)>>,
    <<NoteOnMsg(500, 20, 64)>>,
    <<NoteOnMsg(5000, 90, 64), NoteOffMsg(100, 90)>>,
    <<SetTempoMsg(0, 250000), NoteOnMsg(1000, 60, 64), NoteOnMsg(0, 60, 0)>>,
    <<NoteOnMsg(1000, 64, 64), SetTempoMsg(0, 250000), NoteOnMsg(0, 62, 64)>>,
    <<TrackNameMsg(0, "A"), TrackNameMsg(0, "B"), NoteOnMsg(0, 60, 64)>>,
    <<NoteOnMsg(0, 64, 64), NoteOnMsg(0, 60, 64)>> }

RunFiles ==
  { [ok |-> TRUE, ticks_per_beat |-> 500, tracks |-> <<a, b>>] :
      a \in RunTracks, b \in RunTracks }

FailedLoad == [ok |-> FALSE, ticks_per_beat |-> 0, tracks |-> << >>]

\* A file whose first track is long enough for the rounding of the
\* progress value to show.
LongTrackLen == 50

LongFile ==
  [ok |-> TRUE, ticks_per_beat |-> 500,
   tracks |-> << [k \in 1..LongTrackLen |->
                   IF k = 1 THEN NoteOnMsg(0, 60, 64)
                            ELSE NoteOffMsg(10, 60)],
                 << >> >>]

DefaultSettings ==
  [octave_shift |-> 0, semitone_shift |-> 0, reduce_to_root |-> FALSE,
   time_shift |-> 0]

SettingsChoices ==
  { DefaultSettings,
    [DefaultSettings EXCEPT !.octave_shift = -MaxOctaves],
    [DefaultSettings EXCEPT !.octave_shift = MaxOctaves],
    [DefaultSettings EXCEPT !.semitone_shift = 1],
    [DefaultSettings EXCEPT !.reduce_to_root = TRUE],
    [DefaultSettings EXCEPT !.time_shift = -1000],
    [DefaultSettings EXCEPT !.time_shift = 500] }

\* What the mixer gives for a track: not selected, or its settings.
TrackKnobs ==
  {[selected |-> FALSE, settings |-> DefaultSettings]}
    \cup {[selected |-> TRUE, settings |-> c] : c \in SettingsChoices}

DefaultTrackKnob == [selected |-> TRUE, settings |-> DefaultSettings]

NoTimeRanges == [t \in {} |-> << >>]

TimeRangeChoices ==
  { NoTimeRanges,
    [t \in {0} |-> << >>],
    [t \in {0} |-> <<<<6000, 10000>>>>],
    [t \in {0} |-> <<<<0, 1000>>, <<6000, 10000>>>>],
    [t \in {1} |-> <<<<0, 400>>>>] }

\* The default time frame is 0.0 to 999.0 seconds.
DefaultTimeFrame == <<0, 999000>>
TimeFrameChoices == {DefaultTimeFrame, <<0, 20000>>, <<100, 5000>>}

\* The chord tolerance is 30 ms unless the slider is moved
\* (src/gui_main.py:95); 0 is the low end of the slider.
DefaultTolerance == 30
ToleranceChoices == {0, DefaultTolerance}

KnobCount(k) ==
  (IF k.t0 = DefaultTrackKnob THEN 0 ELSE 1)
  + (IF k.t1 = DefaultTrackKnob THEN 0 ELSE 1)
  + (IF k.ranges = NoTimeRanges THEN 0 ELSE 1)
  + (IF k.frame = DefaultTimeFrame THEN 0 ELSE 1)
  + (IF k.automap THEN 1 ELSE 0)
  + (IF k.kb = "table" THEN 0 ELSE 1)
  + (IF k.tol = DefaultTolerance THEN 0 ELSE 1)

RunKnobs ==
  { k \in [t0 : TrackKnobs, t1 : TrackKnobs, ranges : TimeRangeChoices,
           frame : TimeFrameChoices, automap : BOOLEAN,
           kb : {"table", "fallback"}, tol : ToleranceChoices] :
      KnobCount(k) <= MaxKnobs }

DefaultKnobs ==
  [t0 |-> DefaultTrackKnob, t1 |-> DefaultTrackKnob, ranges |-> NoTimeRanges,
   frame |-> DefaultTimeFrame, automap |-> FALSE, kb |-> "table",
   tol |-> DefaultTolerance]

InitRun ==
  /\ run_pc = "load"
  /\ \E f \in RunFiles \cup {FailedLoad, LongFile} :
     \E k \in (IF f \in RunFiles THEN RunKnobs ELSE {DefaultKnobs}) :
       /\ mid = f
       /\ track_settings =
            [t \in {t \in {0, 1} : IF t = 0 THEN k.t0.selected
                                            ELSE k.t1.selected} |->
               IF t = 0 THEN k.t0.settings ELSE k.t1.settings]
       /\ time_ranges = k.ranges
       /\ start_time = k.frame[1]
       /\ end_time = k.frame[2]
       /\ automap_out_of_range = k.automap
       /\ keyboard_map = k.kb
       /\ chord_tolerance_ms = k.tol
  /\ interruption = FALSE /\ tempo = 0 /\ track_meta = << >>
  /\ selected_tracks = << >> /\ ti = 0 /\ msg_i = 0 /\ abs_time = 0
  /\ track_notes = << >> /\ all_merged_notes = << >>
  /\ total_msgs = 0 /\ processed_msgs = 0 /\ emitted = << >>
  /\ note_log = << >> /\ merged_notes = << >> /\ automapped_notes = << >>

InitSpecRun == InitRun /\ VlqIdle /\ SanIdle /\ RedIdle /\ GuiIdle /\ AhkIdle

NextRun ==
  \/ RunLoad \/ RunScanTrack \/ RunTrackInfo \/ RunTrackBegin \/ RunMsg
  \/ RunTrackEnd \/ RunFinish \/ RequestInterruption

SpecRun == InitSpecRun /\ [][NextRun]_vars

(***************************************************************************)
(* Properties of _encode_vlq and _read_vlq (SpecVlq).                      *)
(***************************************************************************)
\* C1: decoding the encoding of v returns v and a position just past the
\* encoding, for every v below 2^28; such a v takes at most 4 bytes; and
\* 0, 127, 128, 16383 and 2097151 encode to 00, 7F, 81 00, FF 7F and
\* FF FF 7F.
VlqRoundTrip ==
  /\ vlq_pc = "decoded" =>
       vlq_dec = [value |-> vlq_v, pos |-> Len(vlq_enc)]
  /\ vlq_pc \in {"encoded", "decoded"} =>
       /\ Len(vlq_enc) \in 1..4
       /\ vlq_v = 0 => vlq_enc = <<0>>
       /\ vlq_v = 127 => vlq_enc = <<127>>
       /\ vlq_v = 128 => vlq_enc = <<129, 0>>
       /\ vlq_v = 16383 => vlq_enc = <<255, 127>>
       /\ vlq_v = 2097151 => vlq_enc = <<255, 255, 127>>

\* A value of four 7-bit groups has been encoded and decoded.
VlqRoundTripSeen ==
  /\ vlq_pc = "decoded"
  /\ vlq_v >= 2097152
  /\ Len(vlq_enc) = 4
  /\ vlq_dec.value = vlq_v

(***************************************************************************)
(* Properties of safe_load_midi (SpecSan).                                 *)
(***************************************************************************)
\* The number of bytes of a variable-length quantity of at most 4 bytes
\* that starts at p and ends before te, 0 if there is none.
StdVlqLen(buf, p, te) ==
  IF \E n \in 1..4 : /\ p + n <= te
                     /\ buf[p + n] < 128
                     /\ \A k \in 1..(n - 1) : buf[p + k] >= 128
  THEN CHOOSE n \in 1..4 : /\ p + n <= te
                           /\ buf[p + n] < 128
                           /\ \A k \in 1..(n - 1) : buf[p + k] >= 128
  ELSE 0

RECURSIVE StdVlqValue(_, _, _)
\* The value of the n-byte variable-length quantity at p.
StdVlqValue(buf, p, n) ==
  IF n = 0 THEN 0
  ELSE StdVlqValue(buf, p, n - 1) * 128 + (buf[p + n] % 128)

RECURSIVE WfEvents(_, _, _, _)
\* The bytes of buf from p to te are complete events of a Standard MIDI
\* File track: each a delta time and a meta event, a system exclusive
\* event or a channel event, the latter with an explicit status byte or in
\* the running status st of the preceding channel event.
WfEvents(buf, p, te, st) ==
  IF p = te THEN TRUE
  ELSE
    LET n == StdVlqLen(buf, p, te)
        q == p + n
    IN  IF n = 0 \/ q >= te THEN FALSE
        ELSE
          LET b == buf[q + 1]
          IN  IF b = 255
              THEN /\ q + 2 < te
                   /\ buf[q + 2] < 128
                   /\ LET m == StdVlqLen(buf, q + 2, te)
                          e == q + 2 + m + StdVlqValue(buf, q + 2, m)
                      IN  m > 0 /\ e <= te /\ WfEvents(buf, e, te, None)
              ELSE IF b \in {240, 247}
              THEN LET m == StdVlqLen(buf, q + 1, te)
                       e == q + 1 + m + StdVlqValue(buf, q + 1, m)
                   IN  m > 0 /\ e <= te /\ WfEvents(buf, e, te, None)
              ELSE IF b >= 240 THEN FALSE
              ELSE
                LET status == IF b >= 128 THEN b ELSE st
                    d      == IF b >= 128 THEN q + 1 ELSE q
                    args   == IF (status \div 16) \in {12, 13} THEN 1 ELSE 2
                IN  /\ status # None
                    /\ d + args <= te
                    /\ \A k \in 1..args : buf[d + k] < 128
                    /\ WfEvents(buf, d + args, te, status)

RECURSIVE WfChunks(_, _)
\* The bytes of buf from p on are track chunks with correct lengths and
\* complete events.
WfChunks(buf, p) ==
  IF p = Len(buf) THEN TRUE
  ELSE /\ p + 8 <= Len(buf)
       /\ SubSeq(buf, p + 1, p + 4) = MTrk
       /\ LET te == p + 8 + UnpackBE32(SubSeq(buf, p + 5, p + 8))
          IN  te <= Len(buf) /\ WfEvents(buf, p + 8, te, None)
                             /\ WfChunks(buf, te)

\* A well-formed file: a 14-byte header chunk followed by well-formed track
\* chunks.
WellFormed(buf) ==
  /\ Len(buf) >= 14
  /\ SubSeq(buf, 1, 4) = MThd
  /\ SubSeq(buf, 5, 8) = <<0, 0, 0, 6>>
  /\ WfChunks(buf, 14)

\* C2: rebuilding the rebuilt buffer of a well-formed file gives the same
\* bytes again, and does not fail.
RebuildIdempotent ==
  (san_pass = 2 /\ WellFormed(san_input)) =>
     /\ san_pc # "raised"
     /\ san_pc \in {"parse", "done"} => sanitized = san_first

\* A well-formed file of two tracks that uses running status, and whose
\* rebuilt buffer differs from it, has been rebuilt twice.
RebuildIdempotentSeen ==
  /\ san_pass = 2
  /\ san_pc = "parse"
  /\ WellFormed(san_input)
  /\ san_first # san_input
  /\ Len(san_bodies) = 2
  /\ sanitized = san_first

RECURSIVE ChunkLengths(_, _)
\* The length fields of the track chunks of buf from p on, read as a chunk
\* walker reads them; <<None>> where the bytes are not a chunk that fits.
ChunkLengths(buf, p) ==
  IF p = Len(buf) THEN << >>
  ELSE IF p + 8 <= Len(buf) /\ SubSeq(buf, p + 1, p + 4) = MTrk
  THEN LET n == UnpackBE32(SubSeq(buf, p + 5, p + 8))
       IN  IF p + 8 + n <= Len(buf)
           THEN <<n>> \o ChunkLengths(buf, p + 8 + n)
           ELSE <<None>>
  ELSE <<None>>

\* C3: the length field of every emitted track chunk is the number of body
\* bytes emitted for that track, whatever the length field of the file
\* said: the rebuilt buffer is the header followed by exactly the emitted
\* bodies, each under its own length.
EmittedLengthIsBodyLength ==
  (san_pc \in {"chunk", "parse", "done"} /\ ~NoHeader(raw)) =>
     /\ ChunkLengths(sanitized, 14)
          = [i \in 1..Len(san_bodies) |-> Len(san_bodies[i])]
     /\ sanitized = Slice(raw, 0, 14)
          \o Flatten([i \in 1..Len(san_bodies) |->
                        MTrk \o PackBE32(Len(san_bodies[i]))
                             \o san_bodies[i]])

\* A track whose length field pointed past the end of the file has been
\* rebuilt, with a body of another length.
EmittedLengthIsBodyLengthSeen ==
  /\ san_pc = "parse"
  /\ san_pass = 1
  /\ Len(raw) >= 22
  /\ 22 + UnpackBE32(SubSeq(raw, 19, 22)) > Len(raw)
  /\ Len(san_bodies) >= 1
  /\ Len(san_bodies[1]) > 0
  /\ Len(san_bodies[1]) # UnpackBE32(SubSeq(raw, 19, 22))

\* The payload size _fix_meta enforces for a meta type, 0 for other types.
MetaFixedLen(t) ==
  CASE t = 88 -> 4 [] t = 89 -> 2 [] t = 81 -> 3 [] t = 84 -> 5
    [] OTHER -> 0

\* The payload written for a meta type whose payload is too short.
MetaDefault(t) ==
  CASE t = 88 -> <<4, 2, 24, 8>>
    [] t = 89 -> <<0, 0>>
    [] t = 81 -> <<7, 161, 32>>
    [] t = 84 -> <<0, 0, 0, 0, 0>>
    [] OTHER -> << >>

\* C4: a time signature, key signature, tempo or SMPTE offset meta event is
\* emitted with a payload of exactly 4, 2, 3 or 5 bytes: the first bytes of
\* the source payload when its clamped length is at least that, else the
\* default 04 02 18 08, 00 00, 07 A1 20 or 00 00 00 00 00; and the emitted
\* length prefix is that size.
MetaPayloadFixed ==
  (san_ev.kind = "meta" /\ MetaFixedLen(san_ev.mtype) > 0) =>
     LET n == MetaFixedLen(san_ev.mtype)
         k == Len(san_ev.out)
     IN  /\ k >= n + 3
         /\ SubSeq(san_ev.out, k - n - 2, k - n)
              = <<255, san_ev.mtype, n>>
         /\ SubSeq(san_ev.out, k - n + 1, k)
              = IF san_ev.mlen >= n
                THEN SubSeq(raw, san_ev.ppos + 1, san_ev.ppos + n)
                ELSE MetaDefault(san_ev.mtype)

\* A tempo event whose payload the end of the file cut below 3 bytes has
\* been emitted.
MetaPayloadFixedSeen ==
  /\ san_ev.kind = "meta"
  /\ san_ev.mtype = 81
  /\ san_ev.mlen \in 1..2
  /\ san_ev.ppos + san_ev.mlen = Len(raw)
  /\ SubSeq(san_ev.out, Len(san_ev.out) - 2, Len(san_ev.out))
       = <<7, 161, 32>>

\* C5: on a buffer of at least 14 bytes that starts with MThd the rebuild
\* reads no index at or past the end of the buffer and raises nothing:
\* every byte it reads is below the end of the track, which is clamped to
\* the end of the buffer.
RebuildStaysInBuffer ==
  ~NoHeader(raw) =>
     /\ san_pc # "raised"
     /\ ~san_ev.oob
     /\ track_end <= Len(raw)
     /\ san_result \in {"none", "sanitized", "raw", "raise"}
     /\ san_result = "raise" => san_pc = "done"

\* The event loop stopped at a channel event whose data bytes the end of
\* the file cut off.
RebuildStaysInBufferSeen ==
  /\ san_pc = "close"
  /\ san_pass = 1
  /\ san_ev.brk
  /\ san_ev.status = 144
  /\ san_ev.pos + 2 > Len(raw)
  /\ san_ev.pos < Len(raw)

\* safe_load_midi, on a file with a valid header, either returns the parse
\* of the rebuilt buffer or fails, and never returns the parse of the
\* original bytes.
NeverParsesOriginal ==
  (san_pc = "done" /\ ~NoHeader(raw)) =>
     \/ san_result = "sanitized" /\ san_parses.san
     \/ san_result = "raise" /\ ~san_parses.san

\* C6: safe_load_midi, on a file with a valid header, returns the parse of
\* the rebuilt buffer when the parser accepts it; when it does not, the
\* parse of the original bytes when the parser accepts them; and fails
\* only when the parser accepts neither.
ParsesRebuiltThenOriginal ==
  (san_pc = "done" /\ ~NoHeader(raw)) =>
     /\ san_parses.san => san_result = "sanitized"
     /\ (~san_parses.san /\ san_parses.raw) => san_result = "raw"
     /\ (~san_parses.san /\ ~san_parses.raw) => san_result = "raise"

\* The parser refused the rebuilt buffer of a file with a valid header and
\* the parse of the original bytes was returned.
ParsesRebuiltThenOriginalSeen ==
  /\ san_pc = "done"
  /\ san_pass = 1
  /\ ~NoHeader(raw)
  /\ sanitized # raw
  /\ ~san_parses.san
  /\ san_result = "raw"

(***************************************************************************)
(* Properties of reduce_chords_to_root (SpecReduce).                       *)
(***************************************************************************)
\* The lowest pitch of a set of positions of a list of notes.
LowestPitch(notes, ks) ==
  CHOOSE p \in {notes[k][2] : k \in ks} :
    \A k \in ks : p <= notes[k][2]

RECURSIVE AnchorFixed(_, _)
\* The anchor-fixed reference: the group of the first note (the anchor) is
\* the anchor and every later note at most tol after the anchor; a group
\* gives its first note of the lowest pitch; the rest is reduced likewise.
AnchorFixed(notes, tol) ==
  IF notes = << >> THEN << >>
  ELSE
    LET group == {k \in 1..Len(notes) : notes[k][1] - notes[1][1] <= tol}
        low   == LowestPitch(notes, group)
        first == CHOOSE k \in group :
                   /\ notes[k][2] = low
                   /\ \A m \in group : notes[m][2] = low => k <= m
    IN  <<notes[first]>>
          \o AnchorFixed(SubSeq(notes, Cardinality(group) + 1, Len(notes)),
                         tol)

\* C7: on a list in ascending time order reduce_chords_to_root returns what
\* the anchor-fixed reference returns; and with a tolerance of 30 ms the
\* notes (0, 60), (10, 64), (50, 67) give (0, 60), (50, 67).
ReduceIsAnchorFixed ==
  red_pc = "done" =>
    /\ red_out = AnchorFixed(red_notes, red_tol)
    /\ (red_tol = 30
        /\ red_notes = <<<<0, 60, 0>>, <<10, 64, 0>>, <<50, 67, 0>>>>)
         => red_out = <<<<0, 60, 0>>, <<50, 67, 0>>>>

\* A list has been reduced whose third note is within the tolerance of the
\* second but not of the first, the anchor: the first two notes gave the
\* later one, of the lower pitch, and the third stayed alone.
ReduceIsAnchorFixedSeen ==
  /\ red_pc = "done"
  /\ red_tol = 30
  /\ red_notes = <<<<0, 64, 0>>, <<30, 60, 0>>, <<40, 67, 0>>>>
  /\ red_out = <<<<30, 60, 0>>, <<40, 67, 0>>>>

(***************************************************************************)
(* Properties of MidiProcessor.run (SpecRun).                              *)
(***************************************************************************)
\* The auto-map formula for a pitch p and a mappable range lo..hi.
AutoMapFormula(p, lo, hi) ==
  IF p < lo THEN p + 12 * (((lo - p) \div 12) + 1)
  ELSE IF p > hi THEN p - 12 * (((p - hi) \div 12) + 1)
  ELSE p

\* The notes of a list, as a set.
NotesOf(notes) == {notes[k] : k \in 1..Len(notes)}

\* C8: auto-map, when enabled, rewrites the pitch of each merged note by
\* one application of the formula and leaves its time and track index
\* alone; with MIN = 36 and MAX = 83 pitch 20 becomes 44 and pitch 90
\* becomes 78; when it is disabled no pitch changes.  The notes of the
\* result are notes of the list so rewritten.
AutoMapRewrites ==
  Finished =>
    /\ Len(automapped_notes) = Len(merged_notes)
    /\ \A k \in 1..Len(merged_notes) :
         automapped_notes[k] =
           <<merged_notes[k][1],
             IF automap_out_of_range
             THEN AutoMapFormula(merged_notes[k][2], MIN_MAPPED_NOTE,
                                 MAX_MAPPED_NOTE)
             ELSE merged_notes[k][2],
             merged_notes[k][3]>>
    /\ (automap_out_of_range /\ MIN_MAPPED_NOTE = 36
        /\ MAX_MAPPED_NOTE = 83) =>
         \A k \in 1..Len(merged_notes) :
           /\ merged_notes[k][2] = 20 => automapped_notes[k][2] = 44
           /\ merged_notes[k][2] = 90 => automapped_notes[k][2] = 78
    /\ \A k \in 1..Len(visualization_data) :
         <<visualization_data[k][1], visualization_data[k][2],
           visualization_data[k][6]>> \in NotesOf(automapped_notes)

\* With MIN = 36 and MAX = 83 a run has mapped a note of pitch 20 to 44
\* and a note of pitch 90 to 78, and delivered both.
AutoMapRewritesSeen ==
  /\ Finished
  /\ automap_out_of_range
  /\ MIN_MAPPED_NOTE = 36 /\ MAX_MAPPED_NOTE = 83
  /\ \E k \in 1..Len(merged_notes) :
       merged_notes[k][2] = 20 /\ automapped_notes[k][2] = 44
  /\ \E k \in 1..Len(merged_notes) :
       merged_notes[k][2] = 90 /\ automapped_notes[k][2] = 78
  /\ Len(visualization_data) = 2

\* C9: every note of a terminal result has a time t >= 0 inside the global
\* time frame, and inside one of the windows of its track if the track has
\* windows; a note at 5.0 s of a track whose only window is 6.0 to 10.0 s
\* is absent from the result also under the time frame 0.0 to 20.0 s.
ResultInsideWindows ==
  Finished =>
    /\ \A k \in 1..Len(visualization_data) :
         LET t     == visualization_data[k][1]
             track == visualization_data[k][6]
         IN  /\ t >= 0
             /\ start_time <= t /\ t <= end_time
             /\ (track \in DOMAIN time_ranges
                 /\ time_ranges[track] # << >>) =>
                  \E w \in 1..Len(time_ranges[track]) :
                    /\ time_ranges[track][w][1] <= t
                    /\ t <= time_ranges[track][w][2]
    /\ (/\ 0 \in DOMAIN time_ranges
        /\ time_ranges[0] = <<<<6000, 10000>>>>
        /\ start_time = 0 /\ end_time = 20000) =>
         ~\E k \in 1..Len(visualization_data) :
            /\ visualization_data[k][1] = 5000
            /\ visualization_data[k][6] = 0

\* Under the time frame 0.0 to 20.0 s a run has met a note-on at 5.0 s on
\* track 0, whose only window is 6.0 to 10.0 s, and has delivered the notes
\* of the other track only.
ResultInsideWindowsSeen ==
  /\ Finished
  /\ 0 \in DOMAIN time_ranges
  /\ time_ranges[0] = <<<<6000, 10000>>>>
  /\ start_time = 0 /\ end_time = 20000
  /\ \E k \in 1..Len(note_log) :
       note_log[k].ti = 0 /\ note_log[k].time = 5000 /\ ~note_log[k].kept
  /\ Len(visualization_data) > 0
  /\ \A k \in 1..Len(visualization_data) : visualization_data[k][6] = 1

\* C10: a note-on with a velocity above 0 on a selected track whose window
\* list is absent or empty is not dropped by the per-track windows: it is
\* in the result whenever its shifted pitch is an index of the name table,
\* its shifted time is >= 0 and inside the global time frame, and the
\* track is not reduced to roots.
UnrestrictedWithoutWindows ==
  Finished =>
    \A k \in 1..Len(note_log) :
      LET e == note_log[k]
      IN  (/\ e.ti \notin DOMAIN time_ranges \/ time_ranges[e.ti] = << >>
           /\ ~track_settings[e.ti].reduce_to_root
           /\ 0 <= e.note /\ e.note < NumNoteNames
           /\ e.time >= 0
           /\ start_time <= e.time /\ e.time <= end_time) =>
            \E r \in 1..Len(visualization_data) :
              /\ visualization_data[r][1] = e.time
              /\ visualization_data[r][6] = e.ti
              /\ visualization_data[r][2] =
                   IF automap_out_of_range
                   THEN AutoMapFormula(e.note, MIN_MAPPED_NOTE,
                                       MAX_MAPPED_NOTE)
                   ELSE e.note

\* The notes (time, pitch, track) of the terminal result.
ResultNotes ==
  [k \in 1..Len(visualization_data) |->
     <<visualization_data[k][1], visualization_data[k][2],
       visualization_data[k][6]>>]

\* The notes of a list that have the time t, in the order of the list.
NotesAtTime(notes, t) == SelectSeq(notes, LAMBDA n : n[1] = t)

\* The notes of a list inside the global time frame, in the order of the
\* list.
NotesInFrame(notes) ==
  SelectSeq(notes, LAMBDA n : start_time <= n[1] /\ n[1] <= end_time)

\* C11: the notes of a terminal result are in ascending time order, and
\* notes of the same time are in the order they had in the concatenation of
\* the per-track lists, which has the tracks in processing order.
ResultOrderedStable ==
  Finished =>
    /\ \A k \in 1..(Len(ResultNotes) - 1) :
         ResultNotes[k][1] <= ResultNotes[k + 1][1]
    /\ \A k \in 1..(Len(merged_notes) - 1) :
         merged_notes[k][3] <= merged_notes[k + 1][3]
    /\ Len(ResultNotes) = Len(NotesInFrame(automapped_notes))
    /\ \A n \in NotesOf(automapped_notes) :
         NotesAtTime(ResultNotes, n[1])
           = NotesAtTime(NotesInFrame(automapped_notes), n[1])

\* A result holds two notes of one track at the same time, the higher pitch
\* first as in the track, and a note of the other track at that time after
\* them.
ResultOrderedStableSeen ==
  /\ Finished
  /\ Len(ResultNotes) >= 3
  /\ ResultNotes[1] = <<0, 64, 0>>
  /\ ResultNotes[2] = <<0, 60, 0>>
  /\ ResultNotes[3][1] = 0
  /\ ResultNotes[3][3] = 1

\* How many times a note is in a list.
CountOf(notes, n) == Cardinality({k \in 1..Len(notes) : notes[k] = n})

\* C12: the resolver gives one tuple for each note that survived merging
\* and the time frame, with its time, pitch and track index; the range
\* flag is true exactly when MIN_MAPPED_NOTE <= pitch <= MAX_MAPPED_NOTE; a
\* key and a modifier are attached exactly when the pitch is in range and
\* its name is a key of note_to_key, and they are that entry's; a note out
\* of range is kept, flagged false, without a key.
ResolverOneTuplePerNote ==
  Finished =>
    /\ Len(ResultNotes) = Len(NotesInFrame(automapped_notes))
    /\ \A n \in NotesOf(automapped_notes) \cup NotesOf(ResultNotes) :
         CountOf(ResultNotes, n) = CountOf(NotesInFrame(automapped_notes), n)
    /\ \A k \in 1..Len(visualization_data) :
         LET r        == visualization_data[k]
             in_range == MIN_MAPPED_NOTE <= r[2] /\ r[2] <= MAX_MAPPED_NOTE
             entries  == {e \in note_to_key : e[1] = midi_note_names[r[2]]}
         IN  /\ r[5] = in_range
             /\ (r[3] # "None") = (in_range /\ entries # {})
             /\ (r[3] # "None") = (r[4] # "None")
             /\ r[3] # "None" => <<midi_note_names[r[2]], <<r[3], r[4]>>>>
                                   \in note_to_key
             /\ ~in_range => (r[3] = "None" /\ r[4] = "None")

\* A result holds a note out of range, flagged false and without a key,
\* next to a note in range with its key.
ResolverOneTuplePerNoteSeen ==
  /\ Finished
  /\ \E k \in 1..Len(visualization_data) :
       ~visualization_data[k][5] /\ visualization_data[k][3] = "None"
  /\ \E k \in 1..Len(visualization_data) :
       visualization_data[k][5] /\ visualization_data[k][3] # "None"


\* The two-track file of the end-to-end example: a note-on of pitch 60 at
\* 0.0 s in track 0 and a note-on of pitch 20 at 0.5 s in track 1.
ExampleFile ==
  [ok |-> TRUE, ticks_per_beat |-> 500,
   tracks |-> << <<TrackNameMsg(0, "A"), TrackNameMsg(0, "B"),
                   NoteOnMsg(0, 60, 64)>>,
                 <<NoteOnMsg(500, 20, 64)>> >>]

\* The example is run with both tracks selected, no shift, no window and
\* auto-map off.
ExampleRun ==
  /\ Finished
  /\ mid = ExampleFile
  /\ track_settings = [t \in {0, 1} |-> DefaultSettings]
  /\ time_ranges = NoTimeRanges
  /\ <<start_time, end_time>> = DefaultTimeFrame
  /\ ~automap_out_of_range

\* C13: the example yields two resolved notes in this order: pitch 60 at
\* 0.0 s of track 0 in range with a key of the table and no modifier, then
\* pitch 20 at 0.5 s of track 1 out of range without key or modifier.
ExampleResolvesSixtyInRange ==
  ExampleRun =>
    /\ Len(visualization_data) = 2
    /\ LET a == visualization_data[1]
           b == visualization_data[2]
       IN  /\ <<a[1], a[2], a[6]>> = <<0, 60, 0>>
           /\ a[3] # "None" /\ a[4] = "normal" /\ a[5]
           /\ b = <<500, 20, "None", "None", FALSE, 1>>


(***************************************************************************)
(* MainWindow (gui_main.py) and the MidiProcessor threads it starts.  The  *)
(* main thread takes one event at a time from its queue; a handler that    *)
(* calls QThread.wait() stays inside it until that thread has stopped.  A  *)
(* signal a thread emits to a slot of the window is queued for the main    *)
(* thread; progress is connected to nothing.  A thread's run() is followed *)
(* through the places where it tests the interruption flag or emits.       *)
(***************************************************************************)
MaxRuns == 4
MaxPending == 1

Paths == {1, 2}

\* QThread.requestInterruption(): nothing when the thread is not running.
requestInterruption(th, p) ==
  IF p # None /\ th[p].pc # "stopped"
  THEN [th EXCEPT ![p].interruption = TRUE]
  ELSE th

\* QThread.wait() on self.<p> returns.
WaitReturns(p) == IF p = None THEN TRUE ELSE threads[p].pc = "stopped"

\* MidiProcessor(...) followed by start().
NewThread(kind, selected) ==
  [kind |-> kind, pc |-> "load", interruption |-> FALSE,
   selected |-> selected]

Running == {p \in 1..Len(threads) : threads[p].pc # "stopped"}

PendingClicks ==
  Cardinality({k \in 1..Len(event_queue) :
                 event_queue[k].ev \in {"load", "apply"}})

\* The user presses Load MIDI, or Apply (or changes the remap mode or the
\* auto-map box): lines 39, 83-85.
UserClick ==
  /\ gui_pc # "off"
  /\ PendingClicks < MaxPending
  /\ Len(threads) < MaxRuns
  /\ \E b \in {"load", "apply"} :
       event_queue' = Append(event_queue, [ev |-> b, run |-> None])
  /\ UNCHANGED <<gui_pc, midi_path, meta_processor, note_processor, threads,
                 finish_calls>>
  /\ UNCHANGED notGuiVars

\* load_midi up to the first wait() of stop_all_threads (lines 108-114,
\* 171-174); the dialog may be cancelled.
GuiLoadMidi ==
  /\ gui_pc = "idle"
  /\ event_queue # << >> /\ Head(event_queue).ev = "load"
  /\ event_queue' = Tail(event_queue)
  /\ \E path \in Paths \cup {None} :
       IF path = None
       THEN UNCHANGED <<gui_pc, midi_path, threads>>
       ELSE /\ midi_path' = path
            /\ threads' = requestInterruption(threads, meta_processor)
            /\ gui_pc' = "wait_meta"
  /\ UNCHANGED <<meta_processor, note_processor, finish_calls>>
  /\ UNCHANGED notGuiVars

\* stop_all_threads, lines 174-180: the meta processor has stopped.
GuiStopNote ==
  /\ gui_pc = "wait_meta"
  /\ WaitReturns(meta_processor)
  /\ meta_processor' = None
  /\ threads' = requestInterruption(threads, note_processor)
  /\ gui_pc' = "wait_note"
  /\ UNCHANGED <<midi_path, note_processor, event_queue, finish_calls>>
  /\ UNCHANGED notGuiVars

\* stop_all_threads lines 180-181 and load_midi lines 115-121: the note
\* processor has stopped; the meta processor of the new file is started.
GuiStartMeta ==
  /\ gui_pc = "wait_note"
  /\ WaitReturns(note_processor)
  /\ Len(threads) < MaxRuns
  /\ note_processor' = None
  /\ threads' = Append(threads, NewThread("meta", FALSE))
  /\ meta_processor' = Len(threads) + 1
  /\ gui_pc' = "idle"
  /\ UNCHANGED <<midi_path, event_queue, finish_calls>>
  /\ UNCHANGED notGuiVars

\* process_notes up to its wait(), lines 128-134.
ProcessNotesBegin ==
  IF midi_path = None
  THEN UNCHANGED <<gui_pc, threads>>
  ELSE /\ threads' = requestInterruption(threads, note_processor)
       /\ gui_pc' = "wait_old"

\* process_notes called by a click.
GuiProcessNotes ==
  /\ gui_pc = "idle"
  /\ event_queue # << >> /\ Head(event_queue).ev = "apply"
  /\ event_queue' = Tail(event_queue)
  /\ ProcessNotesBegin
  /\ UNCHANGED <<midi_path, meta_processor, note_processor, finish_calls>>
  /\ UNCHANGED notGuiVars

\* populate_mixer_and_process_notes, lines 123-126: the queued track_info
\* of a meta processor is delivered.
GuiTrackInfo ==
  /\ gui_pc = "idle"
  /\ event_queue # << >> /\ Head(event_queue).ev = "track_info"
  /\ event_queue' = Tail(event_queue)
  /\ ProcessNotesBegin
  /\ UNCHANGED <<midi_path, meta_processor, note_processor, finish_calls>>
  /\ UNCHANGED notGuiVars

\* process_notes after its wait(), lines 136-168; the mixer may have no
\* track selected.
GuiStartNote ==
  /\ gui_pc = "wait_old"
  /\ WaitReturns(note_processor)
  /\ Len(threads) < MaxRuns
  /\ \E selected \in BOOLEAN :
       threads' = Append(threads, NewThread("note", selected))
  /\ note_processor' = Len(threads) + 1
  /\ gui_pc' = "idle"
  /\ UNCHANGED <<midi_path, meta_processor, event_queue, finish_calls>>
  /\ UNCHANGED notGuiVars

\* finish_notes, lines 186-205: the queued finished of a note processor
\* is delivered.
GuiFinishNotes ==
  /\ gui_pc = "idle"
  /\ event_queue # << >> /\ Head(event_queue).ev = "finished"
  /\ event_queue' = Tail(event_queue)
  /\ finish_calls' =
       Append(finish_calls, [run |-> Head(event_queue).run,
                             note_processor |-> note_processor])
  /\ UNCHANGED <<gui_pc, midi_path, meta_processor, note_processor, threads>>
  /\ UNCHANGED notGuiVars

\* A signal of thread p emitted to the slot connected to it, if any:
\* track_info of a meta processor (line 120), finished of a note
\* processor (line 166).
Post(p, sig) ==
  IF \/ sig = "track_info" /\ threads[p].kind = "meta"
     \/ sig = "finished" /\ threads[p].kind = "note"
  THEN Append(event_queue, [ev |-> sig, run |-> p])
  ELSE event_queue

\* run(), lines 229-234: the load; a failed load emits finished([], []).
ThreadLoad(p) ==
  /\ threads[p].pc = "load"
  /\ \E ok \in BOOLEAN :
       IF ok
       THEN /\ threads' = [threads EXCEPT ![p].pc = "scan"]
            /\ UNCHANGED event_queue
       ELSE /\ threads' = [threads EXCEPT ![p].pc = "stopped"]
            /\ event_queue' = Post(p, "finished")
  /\ UNCHANGED <<gui_pc, midi_path, meta_processor, note_processor,
                 finish_calls>>
  /\ UNCHANGED notGuiVars

\* run(), lines 241-254: the scan of the tracks tests the flag.
ThreadScan(p) ==
  /\ threads[p].pc = "scan"
  /\ threads' = [threads EXCEPT ![p].pc =
                   IF threads[p].interruption THEN "stopped" ELSE "info"]
  /\ UNCHANGED <<gui_pc, midi_path, meta_processor, note_processor,
                 event_queue, finish_calls>>
  /\ UNCHANGED notGuiVars

\* run(), line 256.
ThreadTrackInfo(p) ==
  /\ threads[p].pc = "info"
  /\ event_queue' = Post(p, "track_info")
  /\ threads' = [threads EXCEPT ![p].pc = "tracks"]
  /\ UNCHANGED <<gui_pc, midi_path, meta_processor, note_processor,
                 finish_calls>>
  /\ UNCHANGED notGuiVars

\* run(), lines 266-325: the flag is tested for each selected track and
\* each of its messages, and not when no track is selected.
ThreadTracks(p) ==
  /\ threads[p].pc = "tracks"
  /\ threads' = [threads EXCEPT ![p].pc =
                   IF threads[p].selected /\ threads[p].interruption
                   THEN "stopped" ELSE "final"]
  /\ UNCHANGED <<gui_pc, midi_path, meta_processor, note_processor,
                 event_queue, finish_calls>>
  /\ UNCHANGED notGuiVars

\* run(), lines 327-389: no test of the flag; finished is emitted.
ThreadFinish(p) ==
  /\ threads[p].pc = "final"
  /\ event_queue' = Post(p, "finished")
  /\ threads' = [threads EXCEPT ![p].pc = "stopped"]
  /\ UNCHANGED <<gui_pc, midi_path, meta_processor, note_processor,
                 finish_calls>>
  /\ UNCHANGED notGuiVars

ThreadLoads == \E p \in 1..Len(threads) : ThreadLoad(p)
ThreadScans == \E p \in 1..Len(threads) : ThreadScan(p)
ThreadTrackInfos == \E p \in 1..Len(threads) : ThreadTrackInfo(p)
ThreadTracksLoops == \E p \in 1..Len(threads) : ThreadTracks(p)
ThreadFinishes == \E p \in 1..Len(threads) : ThreadFinish(p)

\* MainWindow.__init__, lines 90-106.
InitGui ==
  /\ gui_pc = "idle" /\ midi_path = None /\ meta_processor = None
  /\ note_processor = None /\ threads = << >> /\ event_queue = << >>
  /\ finish_calls = << >>

InitSpecGui == InitGui /\ VlqIdle /\ SanIdle /\ RedIdle /\ RunIdle /\ AhkIdle

NextGui ==
  \/ UserClick \/ GuiLoadMidi \/ GuiStopNote \/ GuiStartMeta
  \/ GuiProcessNotes \/ GuiTrackInfo \/ GuiStartNote \/ GuiFinishNotes
  \/ ThreadLoads \/ ThreadScans \/ ThreadTrackInfos \/ ThreadTracksLoops
  \/ ThreadFinishes

SpecGui == InitSpecGui /\ [][NextGui]_vars

\* C14: at most one processor thread, meta or note, is running at any
\* time.
AtMostOneActiveRun == Cardinality(Running) <= 1

\* C16: finish_notes is never called with the result of a note processor
\* that process_notes has replaced by a newer one.
NoStaleFinish ==
  \A k \in 1..Len(finish_calls) :
    finish_calls[k].note_processor # None
      => finish_calls[k].run = finish_calls[k].note_processor


\* The run is at a place where it tests the flag: the top of the scan of a
\* track, of the per-track loop, or of a per-message iteration.
AtInterruptionTest ==
  \/ run_pc = "scan" /\ Len(track_meta) < Len(mid.tracks)
  \/ run_pc = "tracks" /\ selected_tracks # << >>
  \/ run_pc = "msg" /\ msg_i < Len(mid.tracks[ti + 1])

HasFinished(signals) ==
  \E k \in 1..Len(signals) : signals[k].sig = "finished"

\* C15: a run that comes to the top of the per-track loop or of a
\* per-message iteration with the flag set returns in that step, and the
\* run that has returned emitted nothing in that step and emits nothing
\* afterwards: no progress and no finished.
CancelledRunIsSilent ==
  [][ /\ (interruption /\ AtInterruptionTest) => run_pc' = "returned"
      /\ run_pc' = "returned" =>
           (emitted' = emitted /\ ~HasFinished(emitted'))
      /\ run_pc = "returned" => (run_pc' = "returned" /\ emitted' = emitted)
    ]_vars

\* A run was cancelled in the middle of a track, after it had emitted
\* progress.
CancelledRunIsSilentSeen ==
  /\ run_pc = "returned"
  /\ interruption
  /\ msg_i > 0 /\ msg_i < Len(mid.tracks[ti + 1])
  /\ emitted # << >> /\ emitted[Len(emitted)].sig = "progress"


\* The progress values a run has emitted, in order.
ProgressValues ==
  LET p == SelectSeq(emitted, LAMBDA s : s.sig = "progress")
  IN  [j \in 1..Len(p) |-> p[j].arg]

\* C17: the progress values of a run are integers of 0..100 that never
\* decrease; the value emitted after k of the N messages of the selected
\* tracks is floor(100 * k / N); a run that completes emits 100 as its
\* last progress value, just before finished.
ProgressIsFloorPercent ==
  /\ \A j \in 1..Len(ProgressValues) : ProgressValues[j] \in 0..100
  /\ \A j \in 1..(Len(ProgressValues) - 1) :
       ProgressValues[j] <= ProgressValues[j + 1]
  /\ \A j \in 1..Len(ProgressValues) :
       (j <= processed_msgs /\ total_msgs > 0)
         => ProgressValues[j] = (100 * j) \div total_msgs
  /\ Finished =>
       /\ Len(emitted) >= 2
       /\ emitted[Len(emitted) - 1] = Emit("progress", 100)
       /\ emitted[Len(emitted)].sig = "finished"


FinishedCount ==
  Cardinality({k \in 1..Len(emitted) : emitted[k].sig = "finished"})

\* What holds of the finished event at every moment of a run.
FinishedIsTerminal ==
  /\ FinishedCount <= 1
  /\ HasFinished(emitted) =>
       /\ emitted[Len(emitted)].sig = "finished"
       /\ run_pc = "done"
  /\ (HasFinished(emitted) /\ mid.ok) =>
       LET result == emitted[Len(emitted)].arg
       IN  /\ selected_tracks = << >>
           /\ processed_msgs
                = SumLen(mid.tracks, SetToSeq(DOMAIN track_settings))
           /\ Len(result[1]) = Len(NotesInFrame(automapped_notes))
           /\ Len(result[2]) = Len(mid.tracks)
  /\ ~mid.ok =>
       \/ emitted = << >>
       \/ emitted = <<Emit("finished", << << >>, << >> >>)>>

\* The run has come to its end: it emitted finished, it returned on
\* seeing the flag, or it raised.
RunOver == run_pc \in {"done", "returned", "raised"}

\* C18: a run emits finished at most once and as its last event; a run
\* that loads the file and is not cancelled ends with exactly one
\* finished, carrying the notes of all the messages of all the selected
\* tracks and one colour per track of the file; a run whose load fails
\* emits it once, empty, and emits nothing else; no finished carries a
\* partial list.
FinishedOnceAndLast ==
  [][ /\ FinishedIsTerminal'
      /\ HasFinished(emitted) => emitted' = emitted
      /\ (RunOver' /\ ~interruption') => FinishedCount' = 1
      /\ (RunOver' /\ ~mid.ok) => FinishedCount' = 1
    ]_vars

\* A run of a two-track file with one track selected, never cancelled,
\* has emitted finished after track_info and progress, with its notes and
\* two colours.
FinishedOnceAndLastSeen ==
  /\ Finished
  /\ ~interruption
  /\ Cardinality(DOMAIN track_settings) = 1
  /\ Len(emitted) >= 4
  /\ Len(emitted[Len(emitted)].arg[1]) >= 1
  /\ Len(emitted[Len(emitted)].arg[2]) = 2


\* The value of the first track-name event of a track, or the default
\* name of track i (0-based).
FirstTrackName(tr, i) ==
  LET names == SelectSeq(tr, LAMBDA m : m.type = "track_name")
  IN  IF names = << >> THEN <<"Track", i + 1>> ELSE names[1].name

\* C19: track_info carries one (index, name, note_count) entry per track
\* in file order; the name is that of the first track-name event of the
\* track, or "Track {index+1}"; note_count counts the note-ons with a
\* velocity above 0; the track settings play no part.
ScannerReportsFirstName ==
  \A k \in 1..Len(emitted) :
    emitted[k].sig = "track_info" =>
      emitted[k].arg =
        [i \in 1..Len(mid.tracks) |->
           <<i - 1, FirstTrackName(mid.tracks[i], i - 1),
             Cardinality({j \in 1..Len(mid.tracks[i]) :
                            /\ mid.tracks[i][j].type = "note_on"
                            /\ mid.tracks[i][j].velocity > 0})>>]


\* The positions in track t (0-based) of the note-ons with a velocity above
\* 0 whose pitch, shifted by the settings of the track, is q.
SoundingNoteOns(t, q) ==
  {j \in 1..Len(mid.tracks[t + 1]) :
     /\ mid.tracks[t + 1][j].type = "note_on"
     /\ mid.tracks[t + 1][j].velocity > 0
     /\ q = mid.tracks[t + 1][j].note
              + 12 * track_settings[t].octave_shift
              + track_settings[t].semitone_shift}

\* C20: with auto-map off, each delivered note of track ti has the pitch
\* p + 12 * octave_shift(ti) + semitone_shift(ti) of a note-on of pitch p
\* and velocity above 0 of that track, which is selected; there are no more
\* delivered notes of a track and pitch than such note-ons, so a note-on of
\* velocity 0, a note-off or a message of a track that is not selected
\* gives no note.
PitchIsShiftedNoteOn ==
  (Finished /\ ~automap_out_of_range) =>
    \A k \in 1..Len(ResultNotes) :
      LET t == ResultNotes[k][3]
          q == ResultNotes[k][2]
      IN  /\ t \in DOMAIN track_settings
          /\ SoundingNoteOns(t, q) # {}
          /\ Cardinality({i \in 1..Len(ResultNotes) :
                            ResultNotes[i][3] = t /\ ResultNotes[i][2] = q})
               <= Cardinality(SoundingNoteOns(t, q))

\* A run with auto-map off and a semitone up on track 0, whose messages
\* hold a note-on of velocity 0 beside one of pitch 60, has delivered the
\* single note of pitch 61; the other track, with notes, is not selected.
PitchIsShiftedNoteOnSeen ==
  /\ Finished /\ ~automap_out_of_range
  /\ DOMAIN track_settings = {0}
  /\ track_settings[0].semitone_shift = 1
  /\ \E j \in 1..Len(mid.tracks[1]) :
       mid.tracks[1][j].type = "note_on" /\ mid.tracks[1][j].velocity = 0
  /\ \E j \in 1..Len(mid.tracks[2]) :
       mid.tracks[2][j].type = "note_on" /\ mid.tracks[2][j].velocity > 0
  /\ Len(ResultNotes) = 1
  /\ ResultNotes[1][2] = 61 /\ ResultNotes[1][3] = 0


(***************************************************************************)
(* finish_notes and export_ahk (gui_main.py).  Times are whole             *)
(* milliseconds, as in the run; the playback speed is the value of its     *)
(* slider, in hundredths.                                                  *)
(***************************************************************************)
MaxAhkNotes == 3

\* int(): truncation toward zero of num / den, den > 0.
IntTrunc(num, den) ==
  IF num >= 0 THEN num \div den ELSE -((-num) \div den)

\* Line 198: the notes that have a key.
CurrentNotes(data) ==
  LET keyed == SelectSeq(data, LAMBDA n : n[3] # "None")
  IN  [k \in 1..Len(keyed) |-> <<keyed[k][1], keyed[k][3], keyed[k][4]>>]

ScriptLine(op, ms, key, chord) ==
  [op |-> op, ms |-> ms, key |-> key, chord |-> chord]

\* Lines 253-256.
Preamble ==
  << ScriptLine("Comment", 0, "", "none"),
     ScriptLine("SendMode", 0, "", "none"),
     ScriptLine("SetKeyDelay", 0, "", "none"),
     ScriptLine("Sleep", 2000, "", "none") >>

\* Lines 262-264: the press of key k with mode m, if m is one of the three.
SendLines(k, m) ==
  IF m = "normal" THEN <<ScriptLine("Send", 0, k, "plain")>>
  ELSE IF m = "shift" THEN <<ScriptLine("Send", 0, k, "shift")>>
  ELSE IF m = "ctrl" THEN <<ScriptLine("Send", 0, k, "ctrl")>>
  ELSE << >>

\* Lines 258-265: the lines of the notes from the i-th on, last being the
\* time of the note before.
RECURSIVE NoteLines(_, _, _, _)
NoteLines(notes, i, last, speed) ==
  IF i > Len(notes) THEN << >>
  ELSE LET t == notes[i][1]
           d == IntTrunc((t - last) * 100, speed)
       IN  <<ScriptLine("Sleep", d, "", "none")>>
             \o SendLines(notes[i][2], notes[i][3])
             \o NoteLines(notes, i + 1, t, speed)

\* The resolved notes a run can hand over: in time order, with a key and
\* its mode or neither.
AhkTimes == {0, 10, 25}
AhkKeys == {<<"q", "normal">>, <<"b", "shift">>, <<"None", "None">>}
AhkNote(t, km) == <<t, IF km[1] = "None" THEN 60 ELSE 20, km[1], km[2],
                    km[1] # "None", 0>>
AhkSpeeds == {25, 100, 150, 200}

AhkResults ==
  UNION { { r \in [1..len -> {AhkNote(t, km) : t \in AhkTimes,
                                               km \in AhkKeys}] :
              \A k \in 1..(len - 1) : r[k][1] <= r[k + 1][1] } :
          len \in 0..MaxAhkNotes }

\* MainWindow.__init__, lines 91-95, and a result about to be delivered.
InitAhk ==
  /\ ahk_pc = "result"
  /\ viz_data \in AhkResults
  /\ current_notes = << >>
  /\ playback_speed = 100
  /\ script = << >>

\* on_speed_changed, lines 230-232.
AhkSpeedChanged ==
  /\ ahk_pc \in {"result", "loaded"}
  /\ \E value \in AhkSpeeds :
       /\ value # playback_speed
       /\ playback_speed' = value
  /\ UNCHANGED <<ahk_pc, viz_data, current_notes, script>>
  /\ UNCHANGED notAhkVars

\* finish_notes, lines 186-205.
AhkFinishNotes ==
  /\ ahk_pc = "result"
  /\ current_notes' = CurrentNotes(viz_data)
  /\ ahk_pc' = "loaded"
  /\ UNCHANGED <<viz_data, playback_speed, script>>
  /\ UNCHANGED notAhkVars

\* export_ahk, lines 243-267, with a path chosen: nothing is written when
\* there is no note with a key.
AhkExport ==
  /\ ahk_pc = "loaded"
  /\ script' = IF current_notes = << >> THEN script
               ELSE Preamble \o NoteLines(current_notes, 1, 0, playback_speed)
  /\ ahk_pc' = "exported"
  /\ UNCHANGED <<viz_data, current_notes, playback_speed>>
  /\ UNCHANGED notAhkVars

InitSpecAhk == InitAhk /\ VlqIdle /\ SanIdle /\ RedIdle /\ RunIdle /\ GuiIdle

NextAhk == AhkSpeedChanged \/ AhkFinishNotes \/ AhkExport

SpecAhk == InitSpecAhk /\ [][NextAhk]_vars

\* The notes of a result that have a key, in the order of the result.
KeyBearing == SelectSeq(viz_data, LAMBDA n : n[3] # "None")

\* C21: after the preamble the script holds, for each note with a key in
\* time order, a delay and then a press; the delay is the non-negative
\* integer nearest to (t_i - t_(i-1)) * 1000 / speed, the time before the
\* first note being 0; the press is plain for 'normal', shift-chorded for
\* 'shift' and ctrl-chorded for 'ctrl'.
DelaysAreRounded ==
  (ahk_pc = "exported" /\ KeyBearing # << >>) =>
    /\ Len(script) = Len(Preamble) + 2 * Len(KeyBearing)
    /\ \A i \in 1..Len(KeyBearing) :
         LET sleep == script[Len(Preamble) + 2 * i - 1]
             send  == script[Len(Preamble) + 2 * i]
             last  == IF i = 1 THEN 0 ELSE KeyBearing[i - 1][1]
             diff  == (KeyBearing[i][1] - last) * 100
             err   == sleep.ms * playback_speed - diff
         IN  /\ sleep.op = "Sleep" /\ sleep.ms >= 0
             /\ 2 * err <= playback_speed /\ -2 * err <= playback_speed
             /\ send.op = "Send" /\ send.key = KeyBearing[i][3]
             /\ send.chord = (IF KeyBearing[i][4] = "normal" THEN "plain"
                              ELSE KeyBearing[i][4])


\* The bytes of the buffer from the read position on.
BytesFromStart ==
  [k \in 1..(Len(vlq_enc) - vlq_start) |-> vlq_enc[vlq_start + k]]

VlqFailed == vlq_dec = [value |-> None, pos |-> vlq_start + 1]

\* C22: _read_vlq scans at most 4 bytes: when the first four bytes at the
\* read position all have the continuation bit it fails, with no value
\* and the position start + 1, whatever the fifth byte is; it fails too
\* when the buffer ends before a byte without the continuation bit.
ScansAtMostFourBytes ==
  vlq_pc = "read" =>
    /\ (Len(BytesFromStart) >= 4
        /\ \A k \in 1..4 : BytesFromStart[k] >= 128) => VlqFailed
    /\ (\A k \in 1..Len(BytesFromStart) : BytesFromStart[k] >= 128)
         => VlqFailed


RECURSIVE VlqEndsAt(_, _)
\* The position after the variable-length quantity that starts at p: after
\* its first byte without the continuation bit; None if there is none.
VlqEndsAt(buf, p) ==
  IF p >= Len(buf) THEN None
  ELSE IF buf[p + 1] < 128 THEN p + 1
  ELSE VlqEndsAt(buf, p + 1)

RECURSIVE WholePairs(_, _)
\* The bytes of body from p on are whole pairs: a delta, then an event
\* with its status byte and all of its bytes.
WholePairs(body, p) ==
  IF p = Len(body) THEN TRUE
  ELSE
    LET q == VlqEndsAt(body, p)
    IN  IF q = None \/ q >= Len(body) THEN FALSE
        ELSE
          LET status == body[q + 1]
          IN  IF status < 128 THEN FALSE
              ELSE IF status = 255
              THEN LET e == VlqEndsAt(body, q + 2)
                   IN  /\ q + 2 <= Len(body)
                       /\ e # None
                       /\ LET n == StdVlqValue(body, q + 2, e - (q + 2))
                          IN  e + n <= Len(body) /\ WholePairs(body, e + n)
              ELSE IF status \in {240, 247}
              THEN LET e == VlqEndsAt(body, q + 1)
                   IN  /\ e # None
                       /\ LET n == StdVlqValue(body, q + 1, e - (q + 1))
                          IN  e + n <= Len(body) /\ WholePairs(body, e + n)
              ELSE LET args == IF (status \div 16) \in {12, 13} THEN 1 ELSE 2
                   IN  /\ q + 1 + args <= Len(body)
                       /\ WholePairs(body, q + 1 + args)

\* C23: every emitted track body is a sequence of whole (delta, event)
\* pairs, also when the input track ends or is cut right after a delta or
\* in the middle of an event.
BodiesAreWholePairs ==
  \A i \in 1..Len(san_bodies) : WholePairs(san_bodies[i], 0)


\* C24: when the byte at an event position has its high bit clear, the
\* event takes the last explicit status byte of the track, or 0x90 when
\* the track had none, and the byte stays as the first data byte; an
\* explicit status byte is consumed and remembered; the event is written
\* with its status byte; a channel event has 2 data bytes for the status
\* nibbles 8, 9, A, B and E and 1 for C and D; a track starts without a
\* remembered status.
RunningStatusWrittenOut ==
  [][ /\ (san_pc = "chunk" /\ san_pc' = "event") => last_status' = None
      /\ (san_pc = "event" /\ pos' # pos /\ san_pc' # "raised") =>
           LET d     == _read_vlq(raw, pos)
               enc   == _encode_vlq(IF d.value = None THEN 0 ELSE d.value)
               q     == d.pos
               added == Len(track_out') - Len(track_out)
           IN  IF q >= track_end
               THEN last_status' = last_status
               ELSE
                 LET b      == raw[q + 1]
                     status == IF b >= 128 THEN b
                               ELSE IF last_status # None THEN last_status
                               ELSE 144
                     first  == IF b >= 128 THEN q + 1 ELSE q
                     args   == IF (status \div 16) \in {12, 13} THEN 1
                               ELSE 2
                 IN  /\ last_status' = (IF b >= 128 THEN b ELSE last_status)
                     /\ added > Len(enc) =>
                          /\ track_out'[Len(track_out) + Len(enc) + 1] = status
                          /\ status >= 128
                     /\ (added > Len(enc) /\ status \notin {255, 240, 247}) =>
                          /\ track_out' = track_out \o enc \o <<status>>
                                            \o SubSeq(raw, first + 1,
                                                      first + args)
                          /\ pos' = first + args
                          /\ (status \div 16) \in {8, 9, 10, 11, 14}
                               => added = Len(enc) + 3
                          /\ (status \div 16) \in {12, 13}
                               => added = Len(enc) + 2
    ]_vars

\* An event in running status after a program change has been written as
\* a program change with the one data byte it had; and the track before
\* it, if any, is closed.
RunningStatusWrittenOutSeen ==
  /\ san_pc \in {"event", "close"}
  /\ san_ev.running /\ san_ev.kind = "chan" /\ san_ev.status = 192
  /\ Len(track_out) >= 6
  /\ SubSeq(track_out, Len(track_out) - 2, Len(track_out)) = <<0, 192, 62>>


(***************************************************************************)
(* Properties of the note times (SpecRun).                                 *)
(***************************************************************************)
RECURSIVE SumOfDeltas(_)
\* The sum of the deltas of a sequence of messages.
SumOfDeltas(msgs) ==
  IF msgs = << >> THEN 0 ELSE Head(msgs).time + SumOfDeltas(Tail(msgs))

RECURSIVE LastTempoOf(_, _)
\* The value of the last tempo event of a sequence of messages, or a
\* default.
LastTempoOf(msgs, default) ==
  IF msgs = << >> THEN default
  ELSE LastTempoOf(Tail(msgs),
                   IF Head(msgs).type = "set_tempo" THEN Head(msgs).tempo
                   ELSE default)

RECURSIVE MsgsOfTracks(_, _)
\* The messages of the selected tracks below track t, in track order.
MsgsOfTracks(file, sel) ==
  IF sel = {} THEN << >>
  ELSE LET t == CHOOSE x \in sel : \A y \in sel : x <= y
       IN  file.tracks[t + 1] \o MsgsOfTracks(file, sel \ {t})

\* The messages the run has processed: the selected tracks before the
\* current one and the current one up to its last processed message.
ProcessedSoFar ==
  MsgsOfTracks(mid, {t \in DOMAIN track_settings : t < ti})
    \o SubSeq(mid.tracks[ti + 1], 1, msg_i)

\* C25: the time of a note before the time shift is the sum of the deltas
\* of its track up to the note-on, times the tempo of the last tempo event
\* processed so far in the run (500000 before any), over 1000000 times the
\* ticks per beat (here in ms): the whole tick count is rescaled by the
\* current tempo.
TimeIsWholeTicksAtLastTempo ==
  (/\ run_pc = "msg" /\ msg_i > 0
   /\ IsNoteOn(mid.tracks[ti + 1][msg_i])) =>
    LET abs_ticks == SumOfDeltas(SubSeq(mid.tracks[ti + 1], 1, msg_i))
        last      == LastTempoOf(ProcessedSoFar, 500000)
        entry     == note_log[Len(note_log)]
    IN  /\ entry.ti = ti /\ entry.msg = mid.tracks[ti + 1][msg_i]
        /\ entry.time - track_settings[ti].time_shift
             = (abs_ticks * (last \div 1000)) \div mid.ticks_per_beat

\* A note-on after a tempo change has got an earlier time than the
\* note-on before it in the same track.
TimeIsWholeTicksAtLastTempoSeen ==
  /\ run_pc = "msg" /\ msg_i = 3 /\ Len(note_log) >= 2
  /\ IsNoteOn(mid.tracks[ti + 1][1]) /\ IsNoteOn(mid.tracks[ti + 1][3])
  /\ mid.tracks[ti + 1][2].type = "set_tempo"
  /\ note_log[Len(note_log)].ti = ti
  /\ note_log[Len(note_log) - 1].ti = ti
  /\ note_log[Len(note_log)].time < note_log[Len(note_log) - 1].time


\* C26: every pitch of a terminal result is in 0..107, an index of the
\* table of 108 names: a note-on whose shifted pitch is negative or 108
\* or more is dropped in the per-track step, so that the track's notes
\* and the merged notes never hold such a pitch, auto-map has no such
\* note to bring back, and the resolver finds a name for every pitch in
\* the mappable range.
PitchesInNameTable ==
  /\ NumNoteNames = 108
  /\ \A k \in 1..Len(note_log) :
       (note_log[k].note < 0 \/ note_log[k].note >= 108)
         => ~note_log[k].kept
  /\ \A k \in 1..Len(track_notes) : track_notes[k][2] \in 0..107
  /\ \A k \in 1..Len(all_merged_notes) : all_merged_notes[k][2] \in 0..107
  /\ Finished =>
       /\ \A k \in 1..Len(visualization_data) :
            /\ visualization_data[k][2] \in 0..107
            /\ visualization_data[k][2] \in DOMAIN midi_note_names
       /\ Len(visualization_data)
            <= Cardinality({k \in 1..Len(note_log) : note_log[k].kept})

\* A run with auto-map on has ended with notes, after a note-on shifted
\* below 0 was dropped.
PitchesInNameTableSeen ==
  /\ Finished /\ automap_out_of_range
  /\ Len(visualization_data) > 0
  /\ \E k \in 1..Len(note_log) :
       note_log[k].note < 0 /\ ~note_log[k].kept


\* C27: with the shipped keyboard table, whose mappable range is 12..47,
\* and auto-map on, every note of a terminal result is in the mappable
\* range and is marked so, and auto-map has moved every pitch by a
\* multiple of 12 and nothing else.
AutoMapKeepsPitchClass ==
  (Finished /\ keyboard_map = "table" /\ automap_out_of_range) =>
    /\ MIN_MAPPED_NOTE = 12 /\ MAX_MAPPED_NOTE = 47
    /\ \A k \in 1..Len(visualization_data) :
         /\ visualization_data[k][5] = TRUE
         /\ visualization_data[k][2] \in 12..47
    /\ Len(automapped_notes) = Len(merged_notes)
    /\ \A k \in 1..Len(merged_notes) :
         /\ (automapped_notes[k][2] - merged_notes[k][2]) % 12 = 0
         /\ automapped_notes[k][2] % 12 = merged_notes[k][2] % 12
         /\ automapped_notes[k][1] = merged_notes[k][1]
         /\ automapped_notes[k][3] = merged_notes[k][3]

\* A run with the shipped table and auto-map on has ended with a note
\* that auto-map moved down by more than one octave into the range and a
\* note that it left alone.
AutoMapKeepsPitchClassSeen ==
  /\ Finished /\ keyboard_map = "table" /\ automap_out_of_range
  /\ Len(visualization_data) = Len(merged_notes)
  /\ \E k \in 1..Len(merged_notes) :
       /\ merged_notes[k][2] > 47
       /\ automapped_notes[k][2] < merged_notes[k][2] - 12
  /\ \E k \in 1..Len(merged_notes) :
       automapped_notes[k][2] = merged_notes[k][2]


\* C28: in a terminal result a note has a key and a modifier or neither;
\* it has a key only when it is marked as in the mappable range; its
\* modifier is "normal" or "shift", never "ctrl"; and a pitch of class D#
\* or A# has no key even in the mappable range, because the table spells
\* those entries Eb and Bb and the names of the pitches are spelled with
\* sharps.
KeyAndModifierTogether ==
  Finished =>
    \A k \in 1..Len(visualization_data) :
      LET v == visualization_data[k]
      IN  /\ (v[3] = "None") <=> (v[4] = "None")
          /\ v[3] # "None" => v[5] = TRUE
          /\ v[4] \in {"None", "normal", "shift"}
          /\ (v[2] % 12) \in {3, 10} => v[3] = "None"

\* A run with the shipped table has ended with a D# or A# in the mappable
\* range that has no key, and a note that has a key.
KeyAndModifierTogetherSeen ==
  /\ Finished /\ keyboard_map = "table"
  /\ \E k \in 1..Len(visualization_data) :
       /\ visualization_data[k][5] = TRUE
       /\ (visualization_data[k][2] % 12) \in {3, 10}
       /\ visualization_data[k][3] = "None"
  /\ \E k \in 1..Len(visualization_data) :
       visualization_data[k][3] # "None"


(***************************************************************************)
(* Properties of the chord reducer inside a run (SpecRun).                 *)
(***************************************************************************)
\* The notes the per-track step kept for track t, in file order.
KeptOfTrack(t) ==
  LET es == SelectSeq(note_log, LAMBDA e : e.ti = t /\ e.kept)
  IN  [k \in 1..Len(es) |-> <<es[k].time, es[k].note, t>>]

\* The merged notes that carry track index t, in order.
MergedOfTrack(t) == SelectSeq(merged_notes, LAMBDA n : n[3] = t)

RECURSIVE IsSubsequence(_, _)
\* Whether a is b with some elements left out.
IsSubsequence(a, b) ==
  IF a = << >> THEN TRUE
  ELSE IF b = << >> THEN FALSE
  ELSE IF Head(a) = Head(b) THEN IsSubsequence(Tail(a), Tail(b))
  ELSE IsSubsequence(a, Tail(b))

\* C29: for a track with reduce_to_root set, whatever the tolerance, the
\* notes the reducer returned have strictly increasing times, are a
\* subsequence of the track's notes sorted by time, and are no more than
\* them; reduction is per track: a track keeps a note of its own first
\* chord whatever the other track holds, and a track without
\* reduce_to_root keeps all its notes.
ReducedTrackStrictlyIncreasing ==
  Finished =>
    \A t \in DOMAIN track_settings :
      LET inp == SortByTime(KeptOfTrack(t))
          out == MergedOfTrack(t)
      IN  IF track_settings[t].reduce_to_root
          THEN /\ \A k \in 1..(Len(out) - 1) : out[k][1] < out[k + 1][1]
               /\ IsSubsequence(out, inp)
               /\ Len(out) <= Len(inp)
               /\ inp # << >> =>
                    /\ out # << >>
                    /\ out[1][1] <= inp[1][1] + chord_tolerance_ms
          ELSE out = KeptOfTrack(t)

\* A run has ended in which both tracks were reduced, one of them lost a
\* note, and the merged notes hold a note of each track at the same time.
ReducedTrackStrictlyIncreasingSeen ==
  /\ Finished
  /\ DOMAIN track_settings = {0, 1}
  /\ track_settings[0].reduce_to_root /\ track_settings[1].reduce_to_root
  /\ \E t \in {0, 1} : Len(MergedOfTrack(t)) < Len(KeptOfTrack(t))
  /\ \E a, b \in 1..Len(merged_notes) :
       /\ merged_notes[a][3] # merged_notes[b][3]
       /\ merged_notes[a][1] = merged_notes[b][1]


\* C30: the tempo is one value for the whole run: it is 500000 before the
\* first track and afterwards the value of the last tempo event among the
\* messages processed so far, of whatever selected track, so that it is
\* not reset when a track begins; only selected tracks are processed, and
\* when no selected track has a tempo event the tempo stays 500000
\* whatever the other tracks hold.
TempoSharedByTracks ==
  /\ run_pc = "scan" => tempo = 500000
  /\ \A k \in 1..Len(selected_tracks) :
       selected_tracks[k] \in DOMAIN track_settings
  /\ run_pc = "msg" => ti \in DOMAIN track_settings
  /\ ((run_pc \in {"tracks", "msg"} \/ Finished)
      /\ ti \in DOMAIN track_settings) =>
       tempo = LastTempoOf(ProcessedSoFar, 500000)
  /\ ((run_pc \in {"tracks", "msg"} \/ Finished)
      /\ \A t \in DOMAIN track_settings :
           \A k \in 1..Len(mid.tracks[t + 1]) :
             mid.tracks[t + 1][k].type # "set_tempo") =>
       tempo = 500000

\* A run of both tracks has ended in which the first track has a tempo
\* event and the second has none: the note of the second track, 500
\* ticks into it, got the time that the tempo of the first track gives.
TempoSharedByTracksSeen ==
  /\ Finished
  /\ DOMAIN track_settings = {0, 1}
  /\ \E k \in 1..Len(mid.tracks[1]) : mid.tracks[1][k].type = "set_tempo"
  /\ \A k \in 1..Len(mid.tracks[2]) : mid.tracks[2][k].type # "set_tempo"
  /\ tempo = 250000
  /\ \E k \in 1..Len(note_log) :
       /\ note_log[k].ti = 1 /\ note_log[k].msg = mid.tracks[2][1]
       /\ note_log[k].msg.time = 500
       /\ note_log[k].time = 250 + track_settings[1].time_shift

=============================================================================
